---- MODULE Spec2Model ----
(***************************************************************************)
(* Model of ebonura-fastly/configure-compute:                              *)
(*   core/src/graph.rs         Graph (add_node, remove_node, connect, ...)  *)
(*   core/src/interpreter.rs   ExecutionState, execute                      *)
(*   compute/src/rules/engine.rs   RuleEngine (flat rule list)              *)
(*   compute/src/rules/loader.rs   load_rules_from_store                    *)
(*   compute/src/main.rs       the request handler                          *)
(***************************************************************************)
EXTENDS Integers, Sequences, FiniteSets, TLC

VARIABLES
    \* ---- core/src/graph.rs: struct Graph ----
    nodes,          \* Vec<Node>, each [id, kind]
    edges,          \* Vec<Edge>, each [from_node, from_port, to_node, to_port]
    next_id,        \* next available node id
    lastOp,         \* the last Graph method called: arguments, result, graph before
    \* ---- core/src/interpreter.rs: execute(graph, request, state) ----
    xgraph,         \* the graph handed to execute
    xreq,           \* the RequestContext handed to execute
    outputs,        \* ExecutionState.outputs
    rate_counters,  \* ExecutionState.rate_counters
    penalty_boxes,  \* ExecutionState.penalty_boxes
    xresults,       \* the ExecutionResult of every execute call so far
    xchanged,       \* per execute call: did it change rate_counters or penalty_boxes
    lastRate,       \* the last ExecutionState operation: its cell and the count it saw
    xbefore,        \* the ExecutionState the last execute call started from
    xlog,           \* the RateLimit nodes executed one at a time: mode, cell, output
                    \* and the wall-clock second of the execution
    \* ---- compute/src/rules/engine.rs: struct RuleEngine ----
    engine,         \* [rules, rate_counters, penalty_boxes]
    inserted,       \* the rule names in the order add_rule inserted them
    lastEval,       \* the last evaluate_with_details call: request, result, trace
    \* ---- the platform the engine and the handler run on ----
    fastly,         \* [hits, boxes, now]: rate counters, penalty boxes, clock
    security_rules, \* the Config Store "security_rules"
    sink,           \* the lines written to the log endpoint "security_logs"
    sent,           \* the requests sent to backends
    lastCall,       \* the last run of main: request, platform answers, outcome
    handled,        \* number of requests main has handled
    conc            \* the requests evaluating a RateLimit leaf at the same time, each
                    \* with its position in evaluate_rule

graphVars  == <<nodes, edges, next_id, lastOp>>
execVars   == <<xgraph, xreq, outputs, rate_counters, penalty_boxes, xresults, xchanged,
               lastRate, xbefore, xlog>>
engineVars == <<engine, inserted, lastEval>>
hostVars   == <<security_rules, sink, sent, lastCall, handled, conc>>
vars       == <<graphVars, execVars, engineVars, fastly, hostVars>>

(***************************************************************************)
(* Bounds of the model                                                     *)
(***************************************************************************)
MaxNodeId    == 3   \* add_node is called at most this many times
MaxExecNodes == 2   \* graphs handed to execute have at most this many nodes
MaxExecEdges == 2   \* ... and at most this many edges
MaxExec      == 2   \* execute is called at most this many times on one state
MaxHits      == 3   \* requests are evaluated until the rate counters hold this many hits
MaxTime      == 2   \* the clock advances at most this many seconds
MaxRequests  == 2   \* main handles at most this many requests
MaxCount     == 3   \* the counters of one ExecutionState are incremented at most this often
MaxOrderNodes == 3  \* graphs whose execution order is examined have at most this many nodes
MaxConc      == 3   \* at most this many requests evaluate a leaf at the same time
MaxLog       == 3   \* at most this many RateLimit nodes are executed against the clock

\* the port index the editor's connect/disconnect calls use
Ports == {0}

Max(S) == CHOOSE m \in S : \A x \in S : x <= m

EmptyMap == [x \in {} |-> 0]

(***************************************************************************)
(* core/src/value.rs                                                       *)
(***************************************************************************)
VNone      == [t |-> "None"]
VBool(b)   == [t |-> "Bool", b |-> b]
VNumber(n) == [t |-> "Number", n |-> n]
VString(s) == [t |-> "String", s |-> s]
VIp(ip)    == [t |-> "Ip", ip |-> ip]

is_truthy(v) ==
    CASE v.t = "None"   -> FALSE
      [] v.t = "Bool"   -> v.b
      [] v.t = "Number" -> v.n # 0
      [] v.t = "String" -> v.s # ""
      [] v.t = "Ip"     -> TRUE

(***************************************************************************)
(* core/src/nodes.rs: NodeKind and its input ports                         *)
(***************************************************************************)
KRequest   == [tag |-> "Request"]
KCondition(field, operator, value) ==
    [tag |-> "Condition", field |-> field, operator |-> operator, value |-> value]
KAnd(n)    == [tag |-> "And", input_count |-> n]
KOr(n)     == [tag |-> "Or", input_count |-> n]
KNot       == [tag |-> "Not"]
KRateLimit(mode, counter_name, threshold) ==
    [tag |-> "RateLimit", mode |-> mode, counter_name |-> counter_name,
     threshold |-> threshold]
KAction(action) == [tag |-> "Action", action |-> action]
KForward(backend) == [tag |-> "Forward", backend |-> backend]
KHeader    == [tag |-> "Header"]
KComment   == [tag |-> "Comment"]

\* NodeKind::inputs().len()
InputCount(kind) ==
    CASE kind.tag = "Request"   -> 0
      [] kind.tag = "Condition" -> 0
      [] kind.tag = "And"       -> kind.input_count
      [] kind.tag = "Or"        -> kind.input_count
      [] kind.tag = "Not"       -> 1
      [] kind.tag = "RateLimit" -> IF kind.mode = "AddToPenaltyBox" THEN 1 ELSE 0
      [] kind.tag = "Action"    -> 1
      [] kind.tag = "Forward"   -> 1
      [] kind.tag = "Header"    -> 1
      [] kind.tag = "Comment"   -> 0

(***************************************************************************)
(* core/src/graph.rs                                                       *)
(***************************************************************************)
Graph(ns, es, nid) == [nodes |-> ns, edges |-> es, next_id |-> nid]

NodeIds(G) == {G.nodes[i].id : i \in 1..Len(G.nodes)}

Edge(f, fp, t, tp) == [from_node |-> f, from_port |-> fp, to_node |-> t, to_port |-> tp]

\* an add_node that numbers the node by the count of nodes in the graph
add_node_by_count(G, kind) ==
    Graph(Append(G.nodes, [id |-> Len(G.nodes), kind |-> kind]), G.edges, Len(G.nodes) + 1)

\* Graph::add_node: the node gets id next_id, next_id is incremented
add_node(G, kind) ==
    Graph(Append(G.nodes, [id |-> G.next_id, kind |-> kind]), G.edges, G.next_id + 1)

\* a remove_node that drops the node and keeps the edges
remove_node_keep_edges(G, node_id) ==
    Graph(SelectSeq(G.nodes, LAMBDA n : n.id # node_id), G.edges, G.next_id)

\* Graph::remove_node: drops the node and every edge that touches it
remove_node(G, node_id) ==
    Graph(SelectSeq(G.nodes, LAMBDA n : n.id # node_id),
          SelectSeq(G.edges, LAMBDA e : e.from_node # node_id /\ e.to_node # node_id),
          G.next_id)

\* a connect that pushes the new edge without clearing the input port first
connect_without_retain(G, from_node, from_port, to_node, to_port) ==
    IF from_node \notin NodeIds(G) \/ to_node \notin NodeIds(G)
    THEN [graph |-> G, result |-> "NodeNotFound"]
    ELSE IF from_node = to_node
    THEN [graph |-> G, result |-> "CycleDetected"]
    ELSE [graph |-> Graph(G.nodes,
                          Append(G.edges, Edge(from_node, from_port, to_node, to_port)),
                          G.next_id),
          result |-> "Ok"]

\* Graph::connect: [graph, result]
connect(G, from_node, from_port, to_node, to_port) ==
    IF from_node \notin NodeIds(G)
    THEN [graph |-> G, result |-> "NodeNotFound"]
    ELSE IF to_node \notin NodeIds(G)
    THEN [graph |-> G, result |-> "NodeNotFound"]
    ELSE IF from_node = to_node
    THEN [graph |-> G, result |-> "CycleDetected"]
    ELSE [graph |->
             Graph(G.nodes,
                   Append(SelectSeq(G.edges,
                              LAMBDA e : ~(e.to_node = to_node /\ e.to_port = to_port)),
                          Edge(from_node, from_port, to_node, to_port)),
                   G.next_id),
          result |-> "Ok"]

\* Graph::disconnect
disconnect(G, to_node, to_port) ==
    Graph(G.nodes,
          SelectSeq(G.edges, LAMBDA e : ~(e.to_node = to_node /\ e.to_port = to_port)),
          G.next_id)

\* Graph::get_node: the first node with that id, as a set of at most one node
get_node(G, id) ==
    LET idx == {i \in 1..Len(G.nodes) : G.nodes[i].id = id}
    IN  IF idx = {} THEN {} ELSE {G.nodes[CHOOSE i \in idx : \A j \in idx : i <= j]}

\* Graph::get_incoming_edges
get_incoming_edges(G, node_id) == SelectSeq(G.edges, LAMBDA e : e.to_node = node_id)

\* Graph::visit_node; st = [visited, temp_visited, result, err]
RECURSIVE visit_node(_, _, _)
RECURSIVE visit_sources(_, _, _, _)
\* a visit that takes a node on the current path for one already visited
visit_node_no_cycle_check(G, node_id, st) ==
    IF node_id \in st.temp_visited \/ node_id \in st.visited THEN st
    ELSE LET st1 == [st EXCEPT !.temp_visited = @ \cup {node_id}]
             st2 == visit_sources(G, get_incoming_edges(G, node_id), 1, st1)
         IN  [st2 EXCEPT !.temp_visited = @ \ {node_id},
                         !.visited = @ \cup {node_id},
                         !.result = Append(@, node_id)]

visit_sources(G, inc, i, st) ==
    IF i > Len(inc) \/ st.err THEN st
    ELSE visit_sources(G, inc, i + 1, visit_node(G, inc[i].from_node, st))

visit_node(G, node_id, st) ==
    IF node_id \in st.temp_visited THEN [st EXCEPT !.err = TRUE]
    ELSE IF node_id \in st.visited THEN st
    ELSE LET st1 == [st EXCEPT !.temp_visited = @ \cup {node_id}]
             st2 == visit_sources(G, get_incoming_edges(G, node_id), 1, st1)
         IN  IF st2.err THEN st2
             ELSE [st2 EXCEPT !.temp_visited = @ \ {node_id},
                              !.visited = @ \cup {node_id},
                              !.result = Append(@, node_id)]

RECURSIVE sort_from(_, _, _)
sort_from(G, i, st) ==
    IF i > Len(G.nodes) \/ st.err THEN st
    ELSE sort_from(G, i + 1,
                   IF G.nodes[i].id \in st.visited THEN st
                   ELSE visit_node(G, G.nodes[i].id, st))

\* a sort that lists the nodes as they were added, dependencies or not
topological_sort_unordered(G) ==
    [ok |-> TRUE, order |-> [i \in 1..Len(G.nodes) |-> G.nodes[i].id]]

\* Graph::topological_sort: [ok, order]
topological_sort(G) ==
    LET st == sort_from(G, 1, [visited |-> {}, temp_visited |-> {},
                               result |-> <<>>, err |-> FALSE])
    IN  IF st.err THEN [ok |-> FALSE, order |-> <<>>]
        ELSE [ok |-> TRUE, order |-> st.result]

\* the node pairs joined by a directed path of one or more edges
RECURSIVE ReachFrom(_, _)
ReachFrom(es, S) ==
    LET T == S \cup {es[i].to_node : i \in {j \in 1..Len(es) : es[j].from_node \in S}}
    IN  IF T = S THEN S ELSE ReachFrom(es, T)

HasPath(es, a, b) ==
    b \in ReachFrom(es, {es[i].to_node : i \in {j \in 1..Len(es) : es[j].from_node = a}})

HasCycle(G) == \E n \in NodeIds(G) : HasPath(G.edges, n, n)

\* the new edge from_node -> to_node would close a directed cycle
WouldCloseCycle(G, from_node, to_node) ==
    from_node = to_node \/ HasPath(G.edges, to_node, from_node)

(***************************************************************************)
(* core/src/interpreter.rs                                                 *)
(***************************************************************************)
None_   == [some |-> FALSE]
Some(v) == [some |-> TRUE, v |-> v]

\* RequestContext::get_field (the fields the model's requests carry)
get_field(request, field) ==
    CASE field = "ClientIp" -> IF request.client_ip.some THEN VIp(request.client_ip.v) ELSE VNone
      [] field = "Asn"      -> IF request.asn.some THEN VNumber(request.asn.v) ELSE VNone
      [] field = "IsBot"    -> VBool(request.is_bot)
      [] field = "Path"     -> VString(request.path)

\* ConditionValue
CString(s) == [t |-> "String", s |-> s]
CNumber(n) == [t |-> "Number", n |-> n]
CBool(b)   == [t |-> "Bool", b |-> b]
CList(l)   == [t |-> "List", l |-> l]

\* evaluate_condition (operators that need no string scanning, regex or CIDR parsing)
RECURSIVE evaluate_condition(_, _, _)
evaluate_condition(field_value, operator, cond_value) ==
    CASE operator = "Equals" ->
            (CASE field_value.t = "String" /\ cond_value.t = "String" ->
                      field_value.s = cond_value.s
               [] field_value.t = "Number" /\ cond_value.t = "Number" ->
                      field_value.n = cond_value.n
               [] field_value.t = "Bool" /\ cond_value.t = "Bool" ->
                      field_value.b = cond_value.b
               [] OTHER -> FALSE)
      [] operator = "NotEquals" -> ~evaluate_condition(field_value, "Equals", cond_value)
      [] operator = "GreaterThan" ->
            (IF field_value.t = "Number" /\ cond_value.t = "Number"
             THEN field_value.n > cond_value.n ELSE FALSE)
      [] operator = "LessThan" ->
            (IF field_value.t = "Number" /\ cond_value.t = "Number"
             THEN field_value.n < cond_value.n ELSE FALSE)
      [] operator = "In" ->
            (IF field_value.t = "String" /\ cond_value.t = "List"
             THEN \E i \in 1..Len(cond_value.l) : cond_value.l[i] = field_value.s
             ELSE FALSE)
      [] operator = "NotIn" -> ~evaluate_condition(field_value, "In", cond_value)
      [] operator = "Exists"    -> field_value.t # "None"
      [] operator = "NotExists" -> field_value.t = "None"

\* ExecutionState as a record [outputs, rate_counters, penalty_boxes]
ExecutionState(o, rc, pb) == [outputs |-> o, rate_counters |-> rc, penalty_boxes |-> pb]

\* ExecutionState::new
NewExecutionState == ExecutionState(EmptyMap, EmptyMap, EmptyMap)

\* ExecutionState::set_output
set_output(S, node_id, port, value) ==
    [S EXCEPT !.outputs =
        [k \in DOMAIN S.outputs \cup {<<node_id, port>>} |->
            IF k = <<node_id, port>> THEN value ELSE S.outputs[k]]]

\* ExecutionState::is_in_penalty_box
is_in_penalty_box(S, box_name, entry) ==
    IF box_name \in DOMAIN S.penalty_boxes THEN entry \in S.penalty_boxes[box_name] ELSE FALSE

\* ExecutionState::add_to_penalty_box
add_to_penalty_box(S, box_name, entry) ==
    [S EXCEPT !.penalty_boxes =
        [k \in DOMAIN S.penalty_boxes \cup {box_name} |->
            IF k = box_name
            THEN (IF k \in DOMAIN S.penalty_boxes THEN S.penalty_boxes[k] ELSE {}) \cup {entry}
            ELSE S.penalty_boxes[k]]]

\* ExecutionState::get_rate
get_rate(S, counter_name, entry) ==
    IF counter_name \in DOMAIN S.rate_counters
    THEN IF entry \in DOMAIN S.rate_counters[counter_name]
         THEN S.rate_counters[counter_name][entry] ELSE 0
    ELSE 0

\* an increment that starts the counter's map afresh, dropping its other entries
increment_rate_fresh_counter(S, counter_name, entry) ==
    LET count == get_rate(S, counter_name, entry) + 1
    IN  [state |-> [S EXCEPT !.rate_counters =
                        [k \in DOMAIN S.rate_counters \cup {counter_name} |->
                            IF k = counter_name THEN [e \in {entry} |-> count]
                            ELSE S.rate_counters[k]]],
         count |-> count]

\* ExecutionState::increment_rate: [state, count]
increment_rate(S, counter_name, entry) ==
    LET count   == get_rate(S, counter_name, entry) + 1
        counter == IF counter_name \in DOMAIN S.rate_counters
                   THEN S.rate_counters[counter_name] ELSE EmptyMap
        counter1 == [e \in DOMAIN counter \cup {entry} |->
                        IF e = entry THEN count ELSE counter[e]]
    IN  [state |-> [S EXCEPT !.rate_counters =
                        [k \in DOMAIN S.rate_counters \cup {counter_name} |->
                            IF k = counter_name THEN counter1 ELSE S.rate_counters[k]]],
         count |-> count]

\* gather_inputs: one Value per input port, 1-indexed (port p is element p + 1); an
\* edge later in graph.edges overwrites an earlier one into the same port
gather_inputs(G, node_id, S) ==
    LET found == get_node(G, node_id)
    IN  IF found = {} THEN <<>>
        ELSE LET node == CHOOSE n \in found : TRUE
                 src(p) == {i \in 1..Len(G.edges) :
                               /\ G.edges[i].to_node = node_id
                               /\ G.edges[i].to_port = p
                               /\ <<G.edges[i].from_node, G.edges[i].from_port>>
                                      \in DOMAIN S.outputs}
             IN  [q \in 1..InputCount(node.kind) |->
                    IF src(q - 1) = {} THEN VNone
                    ELSE LET e == G.edges[Max(src(q - 1))]
                         IN  S.outputs[<<e.from_node, e.from_port>>]]

\* inputs.get(i).map(|v| v.is_truthy()).unwrap_or(false)
InputTruthy(inputs, i) == IF i + 1 \in DOMAIN inputs THEN is_truthy(inputs[i + 1]) ELSE FALSE

\* the request's rate-limit entry: client_ip.map(to_string).unwrap_or_default()
EntryOf(request) == IF request.client_ip.some THEN request.client_ip.v ELSE ""

\* execute_node, RateLimit arm: [state, out] with out the sequence of output values
RateLimitNode(kind, inputs, request, S) ==
    LET entry == EntryOf(request)
        r == increment_rate(S, kind.counter_name, entry)
        exceeded == r.count > kind.threshold
    IN  CASE kind.mode = "CheckRate" ->
                [state |-> r.state, out |-> <<VBool(r.count > kind.threshold)>>]
          [] kind.mode = "CheckRateAndPenalize" ->
                [state |-> IF exceeded
                           THEN add_to_penalty_box(r.state, kind.counter_name, entry)
                           ELSE r.state,
                 out |-> <<VBool(exceeded)>>]
          [] kind.mode = "InPenaltyBox" ->
                [state |-> S,
                 out |-> <<VBool(is_in_penalty_box(S, kind.counter_name, entry))>>]
          [] kind.mode = "AddToPenaltyBox" ->
                [state |-> IF InputTruthy(inputs, 0)
                           THEN add_to_penalty_box(S, kind.counter_name, entry)
                           ELSE S,
                 out |-> <<>>]

\* execute_node: the ExecutionState after the node ran
execute_node(G, node, request, S) ==
    LET inputs == gather_inputs(G, node.id, S)
        kind   == node.kind
        r == CASE kind.tag = "Request" -> [state |-> S, out |-> <<VBool(TRUE)>>]
               [] kind.tag = "Condition" ->
                    [state |-> S,
                     out |-> <<VBool(evaluate_condition(get_field(request, kind.field),
                                                        kind.operator, kind.value))>>]
               [] kind.tag = "And" ->
                    [state |-> S,
                     out |-> <<VBool(\A i \in 0..(kind.input_count - 1) :
                                        InputTruthy(inputs, i))>>]
               [] kind.tag = "Or" ->
                    [state |-> S,
                     out |-> <<VBool(\E i \in 0..(kind.input_count - 1) :
                                        InputTruthy(inputs, i))>>]
               [] kind.tag = "Not" ->
                    [state |-> S, out |-> <<VBool(~InputTruthy(inputs, 0))>>]
               [] kind.tag = "RateLimit" -> RateLimitNode(kind, inputs, request, S)
               [] OTHER -> [state |-> S, out |-> <<>>]
    IN  IF Len(r.out) = 0 THEN r.state ELSE set_output(r.state, node.id, 0, r.out[1])

\* ExecutionResult
Allow == [tag |-> "Allow"]

\* check_action_result, the match on ActionType
ActionResult(action) ==
    CASE action.type = "Block" ->
            [tag |-> "Block", status_code |-> action.status_code, message |-> action.message]
      [] action.type = "Challenge" ->
            [tag |-> "Challenge", challenge_type |-> action.challenge_type]
      [] action.type = "Tarpit" -> [tag |-> "Tarpit", delay_ms |-> action.delay_ms]
      [] action.type = "Log" ->
            [tag |-> "Log", message |-> action.message, severity |-> action.severity]
      [] action.type = "Allow" -> Allow

\* check_action_result: a set holding the result, empty for None
check_action_result(G, node, S) ==
    IF ~InputTruthy(gather_inputs(G, node.id, S), 0) THEN {}
    ELSE IF node.kind.tag = "Action" THEN {ActionResult(node.kind.action)}
    ELSE IF node.kind.tag = "Forward" THEN {[tag |-> "Forward", backend |-> node.kind.backend]}
    ELSE {}

\* a loop that keeps executing the remaining nodes after a terminal has fired
RECURSIVE run_order_no_early_return(_, _, _, _, _)
run_order_no_early_return(G, order, i, request, S) ==
    IF i > Len(order) THEN [result |-> Allow, state |-> S]
    ELSE LET found == get_node(G, order[i])
         IN  IF found = {} THEN run_order_no_early_return(G, order, i + 1, request, S)
             ELSE LET node == CHOOSE n \in found : TRUE
                      S1   == execute_node(G, node, request, S)
                      res  == check_action_result(G, node, S1)
                      rest == run_order_no_early_return(G, order, i + 1, request, S1)
                  IN  IF res # {} THEN [result |-> CHOOSE r \in res : TRUE,
                                        state |-> rest.state]
                      ELSE rest

\* the loop of execute over the sorted node ids: [result, state]
RECURSIVE run_order(_, _, _, _, _)
run_order(G, order, i, request, S) ==
    IF i > Len(order) THEN [result |-> Allow, state |-> S]
    ELSE LET found == get_node(G, order[i])
         IN  IF found = {} THEN run_order(G, order, i + 1, request, S)
             ELSE LET node == CHOOSE n \in found : TRUE
                      S1   == execute_node(G, node, request, S)
                      res  == check_action_result(G, node, S1)
                  IN  IF res # {} THEN [result |-> CHOOSE r \in res : TRUE, state |-> S1]
                      ELSE run_order(G, order, i + 1, request, S1)

\* an execute that, when the sort reports a cycle, runs the nodes in the order they
\* were added
execute_cycle_in_added_order(G, request, S) ==
    LET sorted == topological_sort(G)
    IN  IF ~sorted.ok
        THEN run_order(G, [i \in 1..Len(G.nodes) |-> G.nodes[i].id], 1, request, S)
        ELSE run_order(G, sorted.order, 1, request, S)

\* execute: [result, state]
execute(G, request, S) ==
    LET sorted == topological_sort(G)
    IN  IF ~sorted.ok THEN [result |-> Allow, state |-> S]
        ELSE run_order(G, sorted.order, 1, request, S)

(***************************************************************************)
(* The edge platform's rate counters and penalty boxes, as the flat engine *)
(* reaches them through fastly::erl::RateCounter and fastly::erl::Penaltybox*)
(*   F = [hits, boxes, now]                                                *)
(*   hits  : <<counter name, entry>> -> the times of the increments made   *)
(*   boxes : <<box name, entry>> -> the time the entry expires             *)
(*   now   : the wall clock, in seconds                                    *)
(***************************************************************************)
Platform(h, b, t) == [hits |-> h, boxes |-> b, now |-> t]

\* seconds in a rule's window (RateWindow::OneSec, TenSecs, SixtySecs)
WindowSecs(window) ==
    CASE window = "1s"  -> 1
      [] window = "10s" -> 10
      [] window = "60s" -> 60

\* penalty_box.has(&entry)
PenaltyboxHas(F, box_name, entry) ==
    IF <<box_name, entry>> \in DOMAIN F.boxes THEN F.now < F.boxes[<<box_name, entry>>] ELSE FALSE

\* penalty_box.add(&entry, ttl)
PenaltyboxAdd(F, box_name, entry, ttl) ==
    [F EXCEPT !.boxes =
        [k \in DOMAIN F.boxes \cup {<<box_name, entry>>} |->
            IF k = <<box_name, entry>> THEN F.now + ttl ELSE F.boxes[k]]]

\* rate_counter.increment(&entry, 1)
RateCounterIncrement(F, counter_name, entry) ==
    [F EXCEPT !.hits =
        [k \in DOMAIN F.hits \cup {<<counter_name, entry>>} |->
            IF k = <<counter_name, entry>>
            THEN Append(IF k \in DOMAIN F.hits THEN F.hits[k] ELSE <<>>, F.now)
            ELSE F.hits[k]]]

\* the increments of the entry that fall in the last `secs` seconds
CountInWindow(F, counter_name, entry, secs) ==
    IF <<counter_name, entry>> \in DOMAIN F.hits
    THEN LET h == F.hits[<<counter_name, entry>>]
         IN  Cardinality({i \in 1..Len(h) : h[i] > F.now - secs})
    ELSE 0

\* rate_counter.lookup_rate(&entry, window): the platform reports the entry's rate
\* in requests per second, averaged over the window
RateCounterLookupRate(F, counter_name, entry, window) ==
    CountInWindow(F, counter_name, entry, WindowSecs(window)) \div WindowSecs(window)

(***************************************************************************)
(* compute/src/rules/engine.rs: RuleEngine                                 *)
(*   E = [rules, rate_counters, penalty_boxes]                             *)
(*   rules : rule name -> Rule (a HashMap: it keeps no insertion order)    *)
(*   rate_counters, penalty_boxes : the names of the handles opened so far *)
(***************************************************************************)
Engine(r, rc, pb) == [rules |-> r, rate_counters |-> rc, penalty_boxes |-> pb]

\* RuleEngine::new
NewEngine == Engine(EmptyMap, {}, {})

\* RuleEngine::rule_count
rule_count(E) == Cardinality(DOMAIN E.rules)

\* RuleEngine::add_rule; rule_str = [parses, rule]: whether serde_json accepts the
\* text, and the Rule it yields
add_rule(E, name, rule_str) ==
    IF ~rule_str.parses THEN [engine |-> E, result |-> "Err"]
    ELSE [engine |-> [E EXCEPT !.rules =
                        [k \in DOMAIN E.rules \cup {name} |->
                            IF k = name THEN rule_str.rule ELSE E.rules[k]]],
          result |-> "Ok"]

\* strings the string operators scan are sequences of characters
starts_with(s, prefix) ==
    Len(prefix) <= Len(s) /\ SubSeq(s, 1, Len(prefix)) = prefix

contains(s, sub) ==
    \E i \in 1..(Len(s) + 1) :
        i + Len(sub) - 1 <= Len(s) /\ SubSeq(s, i, i + Len(sub) - 1) = sub

\* ConditionRule leaves
PathLeaf(operator, value) == [type |-> "path", operator |-> operator, value |-> value]
IpLeaf(operator, value)   == [type |-> "ip", operator |-> operator, value |-> value]
HeaderLeaf(key, operator) == [type |-> "header", key |-> key, operator |-> operator]
RateLimitLeaf(window, max_requests, block_ttl, counter_name, penaltybox_name) ==
    [type |-> "ratelimit", window |-> window, max_requests |-> max_requests,
     block_ttl |-> block_ttl, counter_name |-> counter_name,
     penaltybox_name |-> penaltybox_name]

\* the names evaluate_rule gives a rate-limit leaf's cells: the configured name, or
\* the one generated from the leaf's parameters
CounterNameOf(rule) ==
    IF rule.counter_name.some THEN [name |-> rule.counter_name.v]
    ELSE [generated |-> "rate_counter", window |-> rule.window,
          max_requests |-> rule.max_requests, block_ttl |-> rule.block_ttl]

PenaltyboxNameOf(rule) ==
    IF rule.penaltybox_name.some THEN [name |-> rule.penaltybox_name.v]
    ELSE [generated |-> "penalty_box", window |-> rule.window,
          max_requests |-> rule.max_requests, block_ttl |-> rule.block_ttl]

\* what evaluating one leaf yields: its verdict, and the engine and platform after it
LeafResult(matched, E, F) == [matched |-> matched, engine |-> E, fastly |-> F]

\* the RateLimit arm without the penalty-box test: the leaf goes by the counter alone
rate_limit_entry_counter_only(E, rule, counter_name, penaltybox_name, entry, fault, F, F1) ==
    IF fault = "increment"
    THEN LeafResult(FALSE, E, F)
    ELSE IF fault = "lookup_rate"
    THEN LeafResult(FALSE, E, F1)
    ELSE IF RateCounterLookupRate(F1, counter_name, entry, rule.window) > rule.max_requests
    THEN IF fault # "add"
         THEN LeafResult(TRUE, E, PenaltyboxAdd(F1, penaltybox_name, entry, rule.block_ttl))
         ELSE LeafResult(FALSE, E, F1)
    ELSE LeafResult(FALSE, E, F1)

\* evaluate_rule, RateLimit arm, for a request with a client IP: the penalty-box
\* test, the increment (F1 is the platform after it), the rate lookup and the
\* penalty-box add; fault names the platform call that returns Err during this
\* evaluation ("none" when every call succeeds)
rate_limit_entry(E, rule, counter_name, penaltybox_name, entry, fault, F, F1) ==
    IF fault # "has" /\ PenaltyboxHas(F, penaltybox_name, entry)
    THEN LeafResult(TRUE, E, F)
    ELSE IF fault = "increment"
    THEN LeafResult(FALSE, E, F)
    ELSE IF fault = "lookup_rate"
    THEN LeafResult(FALSE, E, F1)
    ELSE IF RateCounterLookupRate(F1, counter_name, entry, rule.window) > rule.max_requests
    THEN IF fault # "add"
         THEN LeafResult(TRUE, E, PenaltyboxAdd(F1, penaltybox_name, entry, rule.block_ttl))
         ELSE LeafResult(FALSE, E, F1)
    ELSE LeafResult(FALSE, E, F1)

\* evaluate_rule, RateLimit arm, once the cell names are computed: the handles are
\* opened first, then the client IP is looked at
rate_limit_named(E, rule, counter_name, penaltybox_name, req, fault, F) ==
    IF ~req.client_ip.some
    THEN LeafResult(FALSE,
                    [E EXCEPT !.rate_counters = @ \cup {counter_name},
                              !.penalty_boxes = @ \cup {penaltybox_name}], F)
    ELSE rate_limit_entry([E EXCEPT !.rate_counters = @ \cup {counter_name},
                                    !.penalty_boxes = @ \cup {penaltybox_name}],
                          rule, counter_name, penaltybox_name, req.client_ip.v, fault, F,
                          RateCounterIncrement(F, counter_name, req.client_ip.v))

\* evaluate_rule, RateLimit arm
RateLimitRule(E, rule, req, fault, F) ==
    rate_limit_named(E, rule, CounterNameOf(rule), PenaltyboxNameOf(rule), req, fault, F)

\* evaluate_rule, the arms that read only the request
evaluate_pure_rule(rule, req) ==
    CASE rule.type = "path" ->
            (CASE rule.operator = "Equals"     -> req.path = rule.value
               [] rule.operator = "StartsWith" -> starts_with(req.path, rule.value)
               [] rule.operator = "Contains"   -> contains(req.path, rule.value))
      [] rule.type = "ip" ->
            (IF req.client_ip.some THEN req.client_ip.v \in rule.value ELSE FALSE)
      [] rule.type = "header" ->
            (CASE rule.operator = "Exists"    -> rule.key \in DOMAIN req.headers
               [] rule.operator = "NotExists" -> rule.key \notin DOMAIN req.headers
               [] rule.operator = "Equals"    ->
                    (IF rule.key \in DOMAIN req.headers
                     THEN req.headers[rule.key] = rule.key ELSE FALSE))

\* evaluate_rule: [matched, engine, fastly]
evaluate_rule(E, rule, req, fault, F) ==
    IF rule.type = "ratelimit"
    THEN RateLimitRule(E, rule, req, fault, F)
    ELSE LeafResult(evaluate_pure_rule(rule, req), E, F)

\* evaluate_condition_with_details, the loop over condition.rules:
\* [evaluations, engine, fastly]; leaf_done pushes leaf i's result r and goes on
RECURSIVE eval_leaves(_, _, _, _, _, _, _)
RECURSIVE leaf_done(_, _, _, _, _, _)
\* a loop over condition.rules that stops at the first leaf that did not match
eval_leaves_short_circuit(E, rules_, i, req, fault, F, evaluations) ==
    IF i > Len(rules_) \/ (i > 1 /\ ~evaluations[i - 1].matched)
    THEN [evaluations |-> evaluations, engine |-> E, fastly |-> F]
    ELSE leaf_done(evaluate_rule(E, rules_[i], req, fault, F), rules_, i, req, fault,
                   evaluations)

leaf_done(r, rules_, i, req, fault, evaluations) ==
    eval_leaves(r.engine, rules_, i + 1, req, fault, r.fastly,
                Append(evaluations, [rule |-> rules_[i], matched |-> r.matched]))

eval_leaves(E, rules_, i, req, fault, F, evaluations) ==
    IF i > Len(rules_)
    THEN [evaluations |-> evaluations, engine |-> E, fastly |-> F]
    ELSE leaf_done(evaluate_rule(E, rules_[i], req, fault, F), rules_, i, req, fault,
                   evaluations)

\* a match on the operator that reads NOT as "not all"
combine_not_all(operator, ev) ==
    CASE operator = "AND" -> \A i \in 1..Len(ev) : ev[i].matched
      [] operator = "OR"  -> \E i \in 1..Len(ev) : ev[i].matched
      [] operator = "NOT" -> ~(\A i \in 1..Len(ev) : ev[i].matched)

\* evaluate_condition_with_details, the match on condition.operator
combine(operator, ev) ==
    CASE operator = "AND" -> \A i \in 1..Len(ev) : ev[i].matched
      [] operator = "OR"  -> \E i \in 1..Len(ev) : ev[i].matched
      [] operator = "NOT" -> ~(\E i \in 1..Len(ev) : ev[i].matched)

condition_done(operator, r) ==
    [result |-> combine(operator, r.evaluations), evaluations |-> r.evaluations,
     engine |-> r.engine, fastly |-> r.fastly]

\* evaluate_condition_with_details: [result, evaluations, engine, fastly]
evaluate_condition_with_details(E, condition, req, fault, F) ==
    condition_done(condition.operator,
                   eval_leaves(E, condition.rules, 1, req, fault, F, <<>>))

\* the orders in which iterating the HashMap `rules` can yield the enabled rules:
\* std's HashMap iterates in an arbitrary order
IterationOrders(E) ==
    LET enabled == {n \in DOMAIN E.rules : E.rules[n].enabled}
    IN  {o \in [1..Cardinality(enabled) -> enabled] :
            \A a, b \in 1..Cardinality(enabled) : a # b => o[a] # o[b]}

\* evaluate_with_details, the loop over rules_to_evaluate:
\* [result, evaluations, engine, fastly]; rule_done pushes the evaluation r of the
\* rule at order[i] and returns on a match
RECURSIVE eval_rules(_, _, _, _, _, _, _, _)
RECURSIVE rule_done(_, _, _, _, _, _, _, _)
\* a loop over rules_to_evaluate that pushes the evaluation and goes on to the next
\* rule whether or not this one matched
rule_done_no_return(r, rules_, order, i, req, fault, evaluations, name) ==
    eval_rules(r.engine, rules_, order, i + 1, req, fault, r.fastly,
               Append(evaluations,
                      [name |-> name, rule |-> rules_[name],
                       conditions |-> r.evaluations, matched |-> r.result]))

rule_done(r, rules_, order, i, req, fault, evaluations, name) ==
    IF r.result
    THEN [result |-> Some([name |-> name, action |-> rules_[name].action]),
          evaluations |-> Append(evaluations,
                                 [name |-> name, rule |-> rules_[name],
                                  conditions |-> r.evaluations, matched |-> TRUE]),
          engine |-> r.engine, fastly |-> r.fastly]
    ELSE eval_rules(r.engine, rules_, order, i + 1, req, fault, r.fastly,
                    Append(evaluations,
                           [name |-> name, rule |-> rules_[name],
                            conditions |-> r.evaluations, matched |-> FALSE]))

eval_rules(E, rules_, order, i, req, fault, F, evaluations) ==
    IF i > Len(order)
    THEN [result |-> None_, evaluations |-> evaluations, engine |-> E, fastly |-> F]
    ELSE rule_done(evaluate_condition_with_details(E, rules_[order[i]].conditions,
                                                   req, fault, F),
                   rules_, order, i, req, fault, evaluations, order[i])

\* evaluate_with_details, given the order the HashMap iteration took
evaluate_with_details(E, order, req, fault, F) ==
    eval_rules(E, E.rules, order, 1, req, fault, F, <<>>)

(***************************************************************************)
(* compute/src/rules/loader.rs                                             *)
(* The Config Store "security_rules" is a record                           *)
(*   [rules_packed, rule_list, keys]                                       *)
(* rules_packed : None_ or Some(blob); a blob is the packed text seen      *)
(*   through its decoding: whether it carries the "raw:" prefix, whether   *)
(*   each decoding stage accepts it, and the PackedRules its JSON holds    *)
(*   (json.d maps a rule id to its definition [parses, rule], as keys does) *)
(* rule_list : None_ or Some(the ids the comma-separated text splits into) *)
(* keys : rule id -> rule_str, the per-rule keys of the legacy format      *)
(***************************************************************************)
Ok(v) == [ok |-> TRUE, v |-> v]
Err(e) == [ok |-> FALSE, err |-> e]

LoadedRules(rule_list, rules_, backends) ==
    [rule_list |-> rule_list, rules |-> rules_, backends |-> backends]

\* decompress_rules: serde_json::from_str::<PackedRules> parses the whole document,
\* the map d of rule definitions included, so one definition that is not a Rule
\* fails the parse of the payload. For a "raw:" blob inflate_ok stands for the
\* String::from_utf8 step, whose error is mapped to an io::Error and so surfaces as
\* DecompressError too
decompress_rules(packed) ==
    IF ~packed.base64_ok THEN Err("Base64Error")
    ELSE IF ~packed.inflate_ok THEN Err("DecompressError")
    ELSE IF ~packed.json_ok THEN Err("JsonError")
    ELSE IF \E id \in DOMAIN packed.json.d : ~packed.json.d[id].parses
    THEN Err("JsonError")
    ELSE Ok(LoadedRules(packed.json.r,
                        [id \in DOMAIN packed.json.d |-> packed.json.d[id].rule],
                        packed.json.backends))

\* load_legacy_rules
load_legacy_rules(store) ==
    IF ~store.rule_list.some THEN Err("KeyNotFound")
    ELSE LET rule_list == store.rule_list.v
             ids == {rule_list[i] : i \in 1..Len(rule_list)}
             parsed == {id \in ids \cap DOMAIN store.keys : store.keys[id].parses}
         IN  Ok(LoadedRules(rule_list, [id \in parsed |-> store.keys[id].rule], EmptyMap))

\* a loader that falls back to the legacy keys when the packed blob does not decode
load_rules_from_store_try_legacy(store) ==
    IF store.rules_packed.some /\ decompress_rules(store.rules_packed.v).ok
    THEN decompress_rules(store.rules_packed.v)
    ELSE load_legacy_rules(store)

\* load_rules_from_store
load_rules_from_store(store) ==
    IF store.rules_packed.some
    THEN decompress_rules(store.rules_packed.v)
    ELSE load_legacy_rules(store)

(***************************************************************************)
(* compute/src/main.rs                                                     *)
(***************************************************************************)
BACKEND_NAME == "protected_origin"

\* load_rules, the loop that adds the loaded rules to the engine in rule_list order
RECURSIVE add_loaded(_, _, _)
add_loaded(E, loaded, i) ==
    IF i > Len(loaded.rule_list) THEN E
    ELSE LET rule_id == loaded.rule_list[i]
         IN  IF rule_id \in DOMAIN loaded.rules
             THEN add_loaded(add_rule(E, rule_id,
                                      [parses |-> TRUE, rule |-> loaded.rules[rule_id]]).engine,
                             loaded, i + 1)
             ELSE add_loaded(E, loaded, i + 1)

\* load_rules, once the engine holds the loaded rules: an engine without rules is
\* an error; a backend enters the map when create_dynamic_backend builds it (its
\* config's `builds` field)
engine_built(engine_, backends) ==
    IF rule_count(engine_) = 0 THEN Err("No valid rules were loaded")
    ELSE Ok([engine |-> engine_,
             backends |-> {b \in DOMAIN backends : backends[b].builds}])

\* load_rules, the match on what load_rules_from_store returned
rules_loaded(r) ==
    IF ~r.ok THEN Err("Rule loading failed")
    ELSE engine_built(add_loaded(NewEngine, r.v, 1), r.v.backends)

\* load_rules: Ok([engine, backends]) or Err
load_rules(store) == rules_loaded(load_rules_from_store(store))

\* the HMAC signature add_edge_auth computes under a secret
HMAC(secret) == <<"mac", secret>>

\* Request::set_header
set_header(req, name, value) ==
    [req EXCEPT !.headers = [k \in DOMAIN req.headers \cup {name} |->
                                IF k = name THEN value ELSE req.headers[k]]]

\* add_edge_auth that lets a request through unsigned when the secret is missing
add_edge_auth_unsigned(req, secret) ==
    IF ~secret.some
    THEN [ok |-> TRUE, req |-> req]
    ELSE [ok |-> TRUE, req |-> set_header(req, "Edge-Auth", HMAC(secret.v))]

\* add_edge_auth; secret is what the store "mss_shared_secret" answers for
\* "compute_auth_key" at this call
add_edge_auth(req, secret) ==
    IF ~secret.some
    THEN [ok |-> FALSE, err |-> "Authentication secret not configured", req |-> req]
    ELSE [ok |-> TRUE, req |-> set_header(req, "Edge-Auth", HMAC(secret.v))]

\* WafLog::new
NewWafLog(req) ==
    [path |-> req.path, response |-> None_, rules_evaluated |-> <<>>,
     final_action |-> "initializing", blocked |-> FALSE]

\* what a handler run yields: the value main returns, the lines it wrote to the
\* log endpoint, the requests it sent to backends, and the platform's rate state
Outcome(response, log, sends, F) ==
    [response |-> response, log |-> log, sends |-> sends, fastly |-> F]

\* forward_request and forward_request_to_backend (the two differ only in how the
\* backend is named): secret is the answer to this call's secret lookup, send_ok
\* whether the backend send succeeds
forward_request(req, backend, log_entry, action, secret, send_ok, F) ==
    LET a == add_edge_auth(req, secret)
    IN  IF ~a.ok THEN Outcome(Err(a.err), <<>>, <<>>, F)
        ELSE LET sends == <<[backend |-> backend, req |-> a.req]>>
             IN  IF ~send_ok THEN Outcome(Err("SendError"), <<>>, sends, F)
                 ELSE LET resp == [status |-> 200, from |-> backend]
                          entry == [log_entry EXCEPT !.response = Some(resp.status),
                                                     !.final_action = action]
                      IN  Outcome(Ok(resp), <<entry>>, sends, F)

\* main, after the rules are loaded and evaluated: the handling of the match
apply_action(req, cfg, ev, log_entry, secret, send_ok) ==
    LET F == ev.fastly
    IN  IF ~ev.result.some
        THEN forward_request(req, BACKEND_NAME, log_entry, "forwarded", secret, send_ok, F)
        ELSE LET name == ev.result.v.name
                 action == ev.result.v.action
                 blocked_entry == [log_entry EXCEPT !.blocked = TRUE]
             IN  IF action.type_ = "block"
                 THEN LET status == IF action.response_code.some
                                    THEN action.response_code.v ELSE 403
                      IN  Outcome(Ok([status |-> status, from |-> "edge"]),
                                  <<[blocked_entry EXCEPT !.response = Some(status),
                                                          !.final_action = "blocked"]>>,
                                  <<>>, F)
                 ELSE IF action.type_ = "challenge"
                 THEN Outcome(Ok([status |-> 403, from |-> "edge"]),
                              <<[blocked_entry EXCEPT !.response = Some(403),
                                                      !.final_action = "challenged"]>>,
                              <<>>, F)
                 ELSE IF action.type_ = "route"
                 THEN IF action.backend.some
                      THEN IF action.backend.v \in cfg.backends
                           THEN forward_request(req, action.backend.v,
                                                [blocked_entry EXCEPT !.blocked = FALSE],
                                                "routed:" \o action.backend.v,
                                                secret, send_ok, F)
                           ELSE forward_request(req, BACKEND_NAME, blocked_entry,
                                                "route_backend_missing", secret, send_ok, F)
                      ELSE forward_request(req, BACKEND_NAME, blocked_entry,
                                           "route_no_backend", secret, send_ok, F)
                 ELSE forward_request(req, BACKEND_NAME, blocked_entry,
                                      "unknown_action", secret, send_ok, F)

\* the orders in which the engine main builds from the store can iterate its rules
orders_of(cfg) == IF cfg.ok THEN IterationOrders(cfg.v.engine) ELSE {<<>>}

OrdersOf(store) == orders_of(load_rules(store))

\* main, the loop that copies the rule evaluations into the log entry
Evaluated(evaluations) ==
    [i \in 1..Len(evaluations) |->
        [name |-> evaluations[i].name, matched |-> evaluations[i].matched]]

\* main, from the rule evaluation on
main_evaluated(req, cfg, ev, env) ==
    apply_action(req, cfg, ev,
                 [NewWafLog(req) EXCEPT !.rules_evaluated = Evaluated(ev.evaluations)],
                 env.secret2, env.send_ok)

\* main, from the match on load_rules' result on
main_loaded(req, cfg, env, F) ==
    IF ~cfg.ok
    THEN Outcome(Err(cfg.err),
                 <<[NewWafLog(req) EXCEPT !.final_action = "rule_init_error",
                                          !.blocked = TRUE]>>,
                 <<>>, F)
    ELSE main_evaluated(req, cfg.v,
                        evaluate_with_details(cfg.v.engine, env.order, req, env.fault, F),
                        env)

\* main: env = [secret1, secret2, order, fault, send_ok], what the platform
\* answers during this request
main(req, store, env, F) ==
    IF ~add_edge_auth(req, env.secret1).ok
    THEN Outcome(Err("Authentication secret not configured"), <<>>, <<>>, F)
    ELSE main_loaded(req, load_rules(store), env, F)

(***************************************************************************)
(* The graph under edit: Graph::new, then any sequence of add_node,        *)
(* remove_node, connect, disconnect                                        *)
(***************************************************************************)
BlockAction == [type |-> "Block", status_code |-> 403, message |-> "blocked"]

\* node kinds the editor adds in the model
GraphKinds == {KRequest, KNot, KAction(BlockAction)}

GraphOf == Graph(nodes, edges, next_id)

SetGraph(G) == nodes' = G.nodes /\ edges' = G.edges /\ next_id' = G.next_id

\* Graph::new
GraphInit ==
    /\ nodes = <<>>
    /\ edges = <<>>
    /\ next_id = 0
    /\ lastOp = [op |-> "new", args |-> <<>>, result |-> "Ok", before |-> Graph(<<>>, <<>>, 0)]

AddNode(kind) ==
    /\ next_id < MaxNodeId
    /\ SetGraph(add_node(GraphOf, kind))
    /\ lastOp' = [op |-> "add_node", args |-> <<kind>>, result |-> "Ok", before |-> GraphOf]

RemoveNode(node_id) ==
    /\ SetGraph(remove_node(GraphOf, node_id))
    /\ lastOp' = [op |-> "remove_node", args |-> <<node_id>>, result |-> "Ok",
                  before |-> GraphOf]

Connect(from_node, from_port, to_node, to_port) ==
    LET r == connect(GraphOf, from_node, from_port, to_node, to_port)
    IN  /\ SetGraph(r.graph)
        /\ lastOp' = [op |-> "connect",
                      args |-> <<from_node, from_port, to_node, to_port>>,
                      result |-> r.result, before |-> GraphOf]

Disconnect(to_node, to_port) ==
    /\ SetGraph(disconnect(GraphOf, to_node, to_port))
    /\ lastOp' = [op |-> "disconnect", args |-> <<to_node, to_port>>, result |-> "Ok",
                  before |-> GraphOf]

(***************************************************************************)
(* execute on one graph, request and ExecutionState, called repeatedly     *)
(***************************************************************************)
\* node kinds of the graphs handed to execute
ExecKinds ==
    {KRequest,
     KCondition("Path", "Equals", CString("/a")),
     KNot,
     KAnd(2),
     KRateLimit("CheckRate", "c1", 1),
     KRateLimit("CheckRateAndPenalize", "c1", 1),
     KRateLimit("InPenaltyBox", "c1", 0),
     KRateLimit("AddToPenaltyBox", "c1", 0),
     KAction(BlockAction),
     KForward("b1")}

\* the requests handed to execute
XRequests ==
    {[client_ip |-> ip, path |-> p, asn |-> None_, is_bot |-> FALSE] :
        ip \in {None_, Some("10.0.0.1")}, p \in {"/a", "/b"}}

\* node lists as add_node builds them: ids 0, 1, 2, ... in order
NodeSeqsOf(Kinds, maxn) ==
    UNION {{[i \in 1..n |-> [id |-> i - 1, kind |-> ks[i]]] : ks \in [1..n -> Kinds]} :
              n \in 1..maxn}

ExecNodeSeqs == NodeSeqsOf(ExecKinds, MaxExecNodes)

\* edges connect accepts: both ends exist and differ; the model keeps to output port 0
\* and to input ports the target has (port 0 for every node)
ExecEdges(ns) ==
    {Edge(ns[t[1]].id, 0, ns[t[2]].id, t[3]) :
        t \in {u \in (1..Len(ns)) \X (1..Len(ns)) \X (0..1) :
                  u[1] # u[2] /\ (u[3] = 0 \/ u[3] < InputCount(ns[u[2]].kind))}}

\* edge lists as connect builds them: at most one edge into each input port
ExecEdgeSeqs(ns) ==
    {es \in UNION {[1..k -> ExecEdges(ns)] : k \in 0..MaxExecEdges} :
        \A a, b \in 1..Len(es) :
            a # b => ~(es[a].to_node = es[b].to_node /\ es[a].to_port = es[b].to_port)}

ExecStateOf == ExecutionState(outputs, rate_counters, penalty_boxes)

\* lastRate before any operation on the ExecutionState
NoRate == [op |-> "new", counter_name |-> "", entry |-> "", count |-> 0]

ExecInit ==
    /\ \E ns \in ExecNodeSeqs : \E es \in ExecEdgeSeqs(ns) : xgraph = Graph(ns, es, Len(ns))
    /\ xreq \in XRequests
    /\ outputs = EmptyMap
    /\ rate_counters = EmptyMap
    /\ penalty_boxes = EmptyMap
    /\ xresults = <<>>
    /\ xchanged = <<>>
    /\ lastRate = NoRate
    /\ xbefore = NewExecutionState
    /\ xlog = <<>>

\* the state of the interpreter variables in specifications that do not execute
ExecIdle ==
    /\ xgraph = Graph(<<>>, <<>>, 0)
    /\ xreq = [client_ip |-> None_, path |-> "/a", asn |-> None_, is_bot |-> FALSE]
    /\ outputs = EmptyMap
    /\ rate_counters = EmptyMap
    /\ penalty_boxes = EmptyMap
    /\ xresults = <<>>
    /\ xchanged = <<>>
    /\ lastRate = NoRate
    /\ xbefore = NewExecutionState
    /\ xlog = <<>>

Execute ==
    /\ Len(xresults) < MaxExec
    /\ LET r == execute(xgraph, xreq, ExecStateOf)
       IN  /\ outputs' = r.state.outputs
           /\ rate_counters' = r.state.rate_counters
           /\ penalty_boxes' = r.state.penalty_boxes
           /\ xresults' = Append(xresults, r.result)
           /\ xchanged' = Append(xchanged,
                                 \/ r.state.rate_counters # rate_counters
                                 \/ r.state.penalty_boxes # penalty_boxes)
    /\ xbefore' = ExecStateOf
    /\ lastRate' = [op |-> "execute", counter_name |-> "", entry |-> EntryOf(xreq),
                    count |-> 0]
    /\ UNCHANGED <<xgraph, xreq, xlog>>

(***************************************************************************)
(* execute on graphs of up to three nodes, on a state whose counters       *)
(* earlier executions may have filled                                      *)
(***************************************************************************)
OrderKinds ==
    {KRequest, KRateLimit("CheckRate", "c1", 1), KAction(BlockAction), KForward("b1")}

OrderRequest == [client_ip |-> Some("10.0.0.1"), path |-> "/a", asn |-> None_, is_bot |-> FALSE]

OrderInit ==
    /\ \E ns \in NodeSeqsOf(OrderKinds, MaxOrderNodes) :
          \E es \in ExecEdgeSeqs(ns) : xgraph = Graph(ns, es, Len(ns))
    /\ xreq = OrderRequest
    /\ outputs = EmptyMap
    /\ rate_counters = EmptyMap
    /\ penalty_boxes = EmptyMap
    /\ xresults = <<>>
    /\ xchanged = <<>>
    /\ lastRate = NoRate
    /\ xbefore = NewExecutionState
    /\ xlog = <<>>

(***************************************************************************)
(* One ExecutionState shared by many executions: its methods are called    *)
(* directly and through execute on graphs of one RateLimit node            *)
(***************************************************************************)
CounterNames == {"c1", "c2"}

CounterEntries == {"10.0.0.1", "10.0.0.2"}

CounterRequests ==
    {[client_ip |-> Some(e), path |-> "/a", asn |-> None_, is_bot |-> FALSE] :
        e \in CounterEntries}

\* the RateLimit nodes executed on the shared state
CounterKinds ==
    {KRateLimit(mode, c, 1) : mode \in {"CheckRate", "CheckRateAndPenalize", "InPenaltyBox"},
                              c \in CounterNames}

\* the sum of all counts the ExecutionState holds
RECURSIVE SumCounts(_, _)
SumCounts(counter, K) ==
    IF K = {} THEN 0
    ELSE LET k == CHOOSE x \in K : TRUE IN counter[k] + SumCounts(counter, K \ {k})

RECURSIVE TotalRate(_, _)
TotalRate(rc, K) ==
    IF K = {} THEN 0
    ELSE LET k == CHOOSE x \in K : TRUE
         IN  SumCounts(rc[k], DOMAIN rc[k]) + TotalRate(rc, K \ {k})

SetExecState(S) ==
    /\ outputs' = S.outputs
    /\ rate_counters' = S.rate_counters
    /\ penalty_boxes' = S.penalty_boxes

\* state.increment_rate(counter_name, entry)
IncrementRate(counter_name, entry) ==
    /\ TotalRate(rate_counters, DOMAIN rate_counters) < MaxCount
    /\ \E r \in {increment_rate(ExecStateOf, counter_name, entry)} :
          /\ SetExecState(r.state)
          /\ lastRate' = [op |-> "increment_rate", counter_name |-> counter_name,
                          entry |-> entry, count |-> r.count]
    /\ UNCHANGED <<xgraph, xreq, xresults, xchanged, xbefore, xlog>>

\* state.get_rate(counter_name, entry)
GetRate(counter_name, entry) ==
    /\ lastRate' = [op |-> "get_rate", counter_name |-> counter_name, entry |-> entry,
                    count |-> get_rate(ExecStateOf, counter_name, entry)]
    /\ UNCHANGED <<xgraph, xreq, outputs, rate_counters, penalty_boxes, xresults, xchanged,
                   xbefore, xlog>>

\* state.add_to_penalty_box(box_name, entry)
AddToPenaltyBox(box_name, entry) ==
    /\ SetExecState(add_to_penalty_box(ExecStateOf, box_name, entry))
    /\ lastRate' = [op |-> "add_to_penalty_box", counter_name |-> box_name,
                    entry |-> entry, count |-> get_rate(ExecStateOf, box_name, entry)]
    /\ UNCHANGED <<xgraph, xreq, xresults, xchanged, xbefore, xlog>>

\* execute on the graph holding the one node `kind`, for a request, on the shared state
ExecuteRateNode(kind, req) ==
    /\ TotalRate(rate_counters, DOMAIN rate_counters) < MaxCount
    /\ \E G \in {add_node(Graph(<<>>, <<>>, 0), kind)} :
          /\ xgraph' = G
          /\ xreq' = req
          /\ \E r \in {execute(G, req, ExecStateOf)} :
                /\ SetExecState(r.state)
                /\ lastRate' = [op |-> "execute", counter_name |-> kind.counter_name,
                                entry |-> EntryOf(req),
                                count |-> get_rate(r.state, kind.counter_name, EntryOf(req))]
    /\ UNCHANGED <<xresults, xchanged, xbefore, xlog>>

(***************************************************************************)
(* The flat engine: rules are added, then requests are evaluated           *)
(***************************************************************************)
Rule(enabled, conditions, action) ==
    [enabled |-> enabled, conditions |-> conditions, action |-> action]

Condition(operator, rules_) == [operator |-> operator, rules |-> rules_]

Action(type_, response_code, backend) ==
    [type_ |-> type_, response_code |-> response_code, backend |-> backend]

FlatRequest(path, client_ip) == [path |-> path, client_ip |-> client_ip, headers |-> EmptyMap]

PathA == <<"/", "a">>
PathB == <<"/", "b">>
Ip1 == "10.0.0.1"
Ip2 == "10.0.0.2"

RuleNames == {"r1", "r2"}

\* rule texts without rate-limit leaves: conditions of up to two leaves over the
\* path and the client IP, under each operator

EngineConditions ==
    {Condition(op, ls) : op \in {"AND", "OR", "NOT"},
                         ls \in {<<>>, <<PathLeaf("StartsWith", PathA)>>,
                                 <<IpLeaf("Equals", {Ip1})>>,
                                 <<PathLeaf("StartsWith", PathA), IpLeaf("Equals", {Ip1})>>}}

EngineRuleStrs ==
    {[parses |-> TRUE, rule |-> Rule(en, c, Action("block", None_, None_))] :
        en \in BOOLEAN, c \in EngineConditions}
    \cup {[parses |-> FALSE]}

EngineRequests == {FlatRequest(p, ip) : p \in {PathA, PathB}, ip \in {None_, Some(Ip1)}}

\* rule texts with one rate-limit leaf each
RateLeaves ==
    {RateLimitLeaf("1s", 1, 2, None_, None_),
     RateLimitLeaf("10s", 1, 2, None_, None_),
     RateLimitLeaf("1s", 1, 1, Some("c"), Some("b"))}

RateRuleStrs ==
    {[parses |-> TRUE, rule |-> Rule(TRUE, Condition("AND", <<l>>), Action("block", None_, None_))] :
        l \in RateLeaves}

RateRequests == {FlatRequest(PathA, ip) : ip \in {None_, Some(Ip1), Some(Ip2)}}

\* rule texts for one rule under each operator, over leaf lists that mix leaves
\* reading the request with a rate-limit leaf
TreeLeafLists ==
    {<<>>,
     <<PathLeaf("StartsWith", PathA)>>,
     <<RateLimitLeaf("1s", 1, 2, None_, None_)>>,
     <<PathLeaf("StartsWith", PathA), IpLeaf("Equals", {Ip1})>>,
     <<PathLeaf("StartsWith", PathA), RateLimitLeaf("1s", 1, 2, None_, None_)>>}

TreeRuleStrs ==
    {[parses |-> TRUE, rule |-> Rule(TRUE, Condition(op, ls), Action("block", None_, None_))] :
        op \in {"AND", "OR", "NOT"}, ls \in TreeLeafLists}

\* the platform call that fails during one evaluation
Faults == {"none", "has", "increment", "lookup_rate", "add"}

\* lastEval before the first call; `clean` says that no platform call has failed in
\* any evaluation so far, `before` is the platform as the last call found it
NoEval == [called |-> FALSE, clean |-> TRUE]

\* the number of increments the platform's rate counters hold
RECURSIVE SumLen(_, _)
SumLen(f, K) ==
    IF K = {} THEN 0
    ELSE LET k == CHOOSE x \in K : TRUE IN Len(f[k]) + SumLen(f, K \ {k})

HitCount(F) == SumLen(F.hits, DOMAIN F.hits)

EngineInit ==
    /\ engine = NewEngine
    /\ inserted = <<>>
    /\ lastEval = NoEval

PlatformInit == fastly = Platform(EmptyMap, EmptyMap, 0)

\* add_rule under a name not yet in the engine; the rules are added before the
\* first request is evaluated, as load_rules does
AddRule(name, rule_str) ==
    /\ ~lastEval.called
    /\ name \notin DOMAIN engine.rules
    /\ LET r == add_rule(engine, name, rule_str)
       IN  /\ engine' = r.engine
           /\ inserted' = IF r.result = "Ok" THEN Append(inserted, name) ELSE inserted
    /\ UNCHANGED <<lastEval, fastly>>

\* evaluate_with_details on a request; the HashMap iteration takes any order
Evaluate(req, fault) ==
    /\ HitCount(fastly) < MaxHits
    /\ \E order \in IterationOrders(engine) :
          \E r \in {evaluate_with_details(engine, order, req, fault, fastly)} :
              /\ engine' = r.engine
              /\ fastly' = r.fastly
              /\ lastEval' = [called |-> TRUE, req |-> req, fault |-> fault,
                              clean |-> (fault = "none" /\ lastEval.clean),
                              before |-> fastly,
                              result |-> r.result, evaluations |-> r.evaluations]
    /\ UNCHANGED inserted

\* a second passes
Tick ==
    /\ fastly.now < MaxTime
    /\ fastly' = [fastly EXCEPT !.now = @ + 1]
    /\ UNCHANGED engineVars

(***************************************************************************)
(* The request handler: main runs once per request against the Config Store *)
(***************************************************************************)
\* the rules the stores of the model hold: each matches paths under /a
HostActions ==
    {Action("block", None_, None_), Action("challenge", None_, None_),
     Action("route", None_, Some("b1")), Action("route", None_, None_),
     Action("log", None_, None_), Action("allow", None_, None_),
     Action("tarpit", None_, None_)}

HostRules ==
    {Rule(en, Condition("AND", <<PathLeaf("StartsWith", PathA)>>), a) :
        en \in BOOLEAN, a \in HostActions}

\* a packed blob every decoding stage accepts
PackedBlob(r, d, backends) ==
    [raw |-> FALSE, base64_ok |-> TRUE, inflate_ok |-> TRUE, json_ok |-> TRUE,
     json |-> [v |-> "1.0", r |-> r, d |-> d, backends |-> backends]]

\* a packed blob that fails at a decoding stage
BrokenBlob(base64_ok, inflate_ok) ==
    [raw |-> FALSE, base64_ok |-> base64_ok, inflate_ok |-> inflate_ok, json_ok |-> FALSE]

Store(rules_packed, rule_list, keys) ==
    [rules_packed |-> rules_packed, rule_list |-> rule_list, keys |-> keys]

HostBackends == {EmptyMap, [b \in {"b1"} |-> [host |-> "h1", port |-> 443, builds |-> TRUE]]}

\* a rule definition that is a Rule, and one that is not
Parsing(rule) == [parses |-> TRUE, rule |-> rule]
Unparsable == [parses |-> FALSE]

PackedStores ==
    {Store(Some(PackedBlob(<<>>, EmptyMap, EmptyMap)), None_, EmptyMap)}
    \cup {Store(Some(PackedBlob(<<"r1">>, [n \in {"r1"} |-> Parsing(r1)], bs)),
                None_, EmptyMap) :
            r1 \in HostRules, bs \in HostBackends}
    \cup {Store(Some(PackedBlob(<<"r1", "r2">>,
                                [n \in {"r1", "r2"} |->
                                    IF n = "r1" THEN Parsing(r1) ELSE Parsing(r2)], bs)),
                None_, EmptyMap) :
            r1 \in HostRules, r2 \in HostRules, bs \in HostBackends}
    \cup {Store(Some(PackedBlob(<<"r1", "r2">>,
                                [n \in {"r1", "r2"} |->
                                    IF n = "r1" THEN Unparsable ELSE Parsing(r2)],
                                EmptyMap)),
                None_, EmptyMap) :
            r2 \in HostRules}

BrokenStores ==
    {Store(Some(BrokenBlob(FALSE, FALSE)), None_, EmptyMap),
     Store(Some(BrokenBlob(TRUE, FALSE)), None_, EmptyMap),
     Store(Some(BrokenBlob(TRUE, TRUE)), None_, EmptyMap),
     Store(None_, None_, EmptyMap)}

\* legacy stores: rule_list names r1 and r2; r1's key holds a rule, holds text that
\* does not parse, or is absent; r2's key holds a blocking rule or is absent
LegacyStores ==
    {Store(None_, Some(<<"r1", "r2">>), [n \in ks |-> IF n = "r1" THEN k1 ELSE k2]) :
        ks \in {{"r1", "r2"}, {"r1"}, {"r2"}, {}},
        k1 \in {Parsing(r) : r \in HostRules} \cup {Unparsable},
        k2 \in {Parsing(Rule(TRUE, Condition("AND", <<>>), Action("block", None_, None_)))}}

\* stores that hold both formats: a packed blob, broken at some stage or decoding to
\* one challenge rule, beside legacy keys that hold a blocking rule
BothStores ==
    {Store(Some(blob), Some(<<"r1">>),
           [n \in {"r1"} |->
               Parsing(Rule(TRUE, Condition("AND", <<>>), Action("block", None_, None_)))]) :
        blob \in {BrokenBlob(FALSE, FALSE), BrokenBlob(TRUE, FALSE), BrokenBlob(TRUE, TRUE),
                  [BrokenBlob(TRUE, FALSE) EXCEPT !.raw = TRUE],
                  PackedBlob(<<"r2">>,
                             [n \in {"r2"} |->
                                 Parsing(Rule(TRUE, Condition("AND", <<>>),
                                              Action("challenge", None_, None_)))],
                             EmptyMap)}}

HostStores == PackedStores \cup BrokenStores \cup LegacyStores \cup BothStores

HostRequests == {FlatRequest(p, Some(Ip1)) : p \in {PathA, PathB}}

\* what the store "mss_shared_secret" answers for "compute_auth_key"
Secrets == {None_, Some("k1")}

HostInit ==
    /\ security_rules \in HostStores
    /\ sink = <<>>
    /\ sent = <<>>
    /\ lastCall = [called |-> FALSE]
    /\ handled = 0
    /\ conc = <<>>

\* one run of main
HandleRequest(req, env) ==
    /\ handled < MaxRequests
    /\ \E o \in {main(req, security_rules, env, fastly)} :
          /\ sink' = sink \o o.log
          /\ sent' = sent \o o.sends
          /\ fastly' = o.fastly
          /\ lastCall' = [called |-> TRUE, req |-> req, env |-> env, outcome |-> o]
    /\ handled' = handled + 1
    /\ UNCHANGED <<security_rules, conc>>

(***************************************************************************)
(* Requests in flight at the same time. The platform runs every request in *)
(* an instance of its own; the instances share the platform's rate counters*)
(* and penalty boxes, and each call an instance makes on them is one step.  *)
(* conc[p] = [pc, leaf, ip, own, observed, matched]: the call request p     *)
(* makes next, its leaf and client IP, the count its increment produced,    *)
(* the rate its lookup returned, and the leaf's verdict                     *)
(***************************************************************************)
Procs == 1..MaxConc

ConcLeaves ==
    {RateLimitLeaf("1s", 1, 2, None_, None_), RateLimitLeaf("1s", 1, 2, Some("c"), Some("b"))}

ConcInit ==
    conc \in [Procs -> {[pc |-> "has", leaf |-> l, ip |-> ip, own |-> 0, observed |-> 0,
                         matched |-> FALSE] : l \in ConcLeaves, ip \in {Ip1, Ip2}}]

\* penalty_box.has(&entry): Ok(true) returns true, otherwise the leaf goes on
StepHas(p) ==
    /\ conc[p].pc = "has"
    /\ conc' = [conc EXCEPT ![p] =
                    IF PenaltyboxHas(fastly, PenaltyboxNameOf(conc[p].leaf), conc[p].ip)
                    THEN [@ EXCEPT !.pc = "done", !.matched = TRUE]
                    ELSE [@ EXCEPT !.pc = "increment"]]
    /\ UNCHANGED fastly

\* rate_counter.increment(&entry, 1)
StepIncrement(p) ==
    /\ conc[p].pc = "increment"
    /\ \E F1 \in {RateCounterIncrement(fastly, CounterNameOf(conc[p].leaf), conc[p].ip)} :
          /\ fastly' = F1
          /\ conc' = [conc EXCEPT ![p].pc = "lookup_rate",
                                  ![p].own = CountInWindow(F1, CounterNameOf(conc[p].leaf),
                                                           conc[p].ip,
                                                           WindowSecs(conc[p].leaf.window))]

\* rate_counter.lookup_rate(&entry, window) and the comparison with max_requests
StepLookupRate(p) ==
    /\ conc[p].pc = "lookup_rate"
    /\ \E rate \in {RateCounterLookupRate(fastly, CounterNameOf(conc[p].leaf), conc[p].ip,
                                           conc[p].leaf.window)} :
          conc' = [conc EXCEPT ![p].observed = rate,
                               ![p].pc = IF rate > conc[p].leaf.max_requests
                                         THEN "add" ELSE "done"]
    /\ UNCHANGED fastly

\* penalty_box.add(&entry, ttl)
StepAdd(p) ==
    /\ conc[p].pc = "add"
    /\ fastly' = PenaltyboxAdd(fastly, PenaltyboxNameOf(conc[p].leaf), conc[p].ip,
                               conc[p].leaf.block_ttl)
    /\ conc' = [conc EXCEPT ![p].pc = "done", ![p].matched = TRUE]

(***************************************************************************)
(* Specifications                                                          *)
(***************************************************************************)
HandlerIdle ==
    /\ security_rules = [rules_packed |-> None_, rule_list |-> None_, keys |-> EmptyMap]
    /\ sink = <<>>
    /\ sent = <<>>
    /\ lastCall = [called |-> FALSE]
    /\ handled = 0

HostIdle == HandlerIdle /\ conc = <<>>

InitGraph == GraphInit /\ ExecIdle /\ EngineInit /\ PlatformInit /\ HostIdle

NextGraph ==
    /\ \/ \E kind \in GraphKinds : AddNode(kind)
       \/ \E node_id \in 0..(MaxNodeId - 1) : RemoveNode(node_id)
       \/ \E f, t \in 0..(MaxNodeId - 1) : \E fp, tp \in Ports : Connect(f, fp, t, tp)
       \/ \E t \in 0..(MaxNodeId - 1) : \E tp \in Ports : Disconnect(t, tp)
    /\ UNCHANGED <<execVars, engineVars, fastly, hostVars>>

SpecGraph == InitGraph /\ [][NextGraph]_vars

InitExec == GraphInit /\ ExecInit /\ EngineInit /\ PlatformInit /\ HostIdle

NextExec == Execute /\ UNCHANGED <<graphVars, engineVars, fastly, hostVars>>

SpecExec == InitExec /\ [][NextExec]_vars

InitConc == GraphInit /\ ExecIdle /\ EngineInit /\ PlatformInit /\ HandlerIdle /\ ConcInit

NextConc ==
    /\ \E p \in Procs : \/ StepHas(p)
                         \/ StepIncrement(p)
                         \/ StepLookupRate(p)
                         \/ StepAdd(p)
    /\ UNCHANGED <<graphVars, execVars, engineVars, security_rules, sink, sent, lastCall,
                   handled>>

SpecConc == InitConc /\ [][NextConc]_vars

InitOrder == GraphInit /\ OrderInit /\ EngineInit /\ PlatformInit /\ HostIdle

NextOrder ==
    /\ \/ Execute
       \/ IncrementRate("c1", EntryOf(xreq))
    /\ UNCHANGED <<graphVars, engineVars, fastly, hostVars>>

SpecOrder == InitOrder /\ [][NextOrder]_vars

(***************************************************************************)
(* Condition nodes: graphs of one Condition node, over every field,        *)
(* operator and condition-value type of the model                          *)
(***************************************************************************)
CondFields == {"ClientIp", "Asn", "IsBot", "Path"}

CondOperators ==
    {"Equals", "NotEquals", "GreaterThan", "LessThan", "In", "NotIn", "Exists", "NotExists"}

CondValues == {CString("/a"), CNumber(1), CBool(TRUE), CList(<<"/a">>)}

CondKinds ==
    {KCondition(f, op, v) : f \in CondFields, op \in CondOperators, v \in CondValues}

CondRequests ==
    {[client_ip |-> ip, path |-> p, asn |-> asn, is_bot |-> b] :
        ip \in {None_, Some("10.0.0.1")}, p \in {"/a", "/b"},
        asn \in {None_, Some(1), Some(2)}, b \in BOOLEAN}

CondInit ==
    /\ \E kind \in CondKinds : xgraph = add_node(Graph(<<>>, <<>>, 0), kind)
    /\ xreq \in CondRequests
    /\ outputs = EmptyMap
    /\ rate_counters = EmptyMap
    /\ penalty_boxes = EmptyMap
    /\ xresults = <<>>
    /\ xchanged = <<>>
    /\ lastRate = NoRate
    /\ xbefore = NewExecutionState
    /\ xlog = <<>>

InitCond == GraphInit /\ CondInit /\ EngineInit /\ PlatformInit /\ HostIdle

NextCond == Execute /\ UNCHANGED <<graphVars, engineVars, fastly, hostVars>>

SpecCond == InitCond /\ [][NextCond]_vars

(***************************************************************************)
(* RateLimit nodes against the wall clock: graphs of one CheckRateAndPenalize*)
(* or InPenaltyBox node are executed on one shared ExecutionState while     *)
(* seconds pass between the executions                                      *)
(***************************************************************************)
\* the penalty_ttl_seconds of the model's RateLimit nodes; execute_node binds the
\* field to `_`
PenaltyTtl == 1

PenaltyKinds ==
    {KRateLimit("CheckRateAndPenalize", "c1", 1), KRateLimit("InPenaltyBox", "c1", 0)}

\* execute on the graph holding the one node `kind`, at the second the clock shows
ExecuteNodeAt(kind, req) ==
    /\ Len(xlog) < MaxLog
    /\ \E G \in {add_node(Graph(<<>>, <<>>, 0), kind)} :
          /\ xgraph' = G
          /\ xreq' = req
          /\ \E r \in {execute(G, req, ExecStateOf)} :
                /\ SetExecState(r.state)
                /\ lastRate' = [op |-> "execute", counter_name |-> kind.counter_name,
                                entry |-> EntryOf(req),
                                count |-> get_rate(r.state, kind.counter_name, EntryOf(req))]
                /\ xlog' = Append(xlog,
                                  [mode |-> kind.mode, counter_name |-> kind.counter_name,
                                   threshold |-> kind.threshold, entry |-> EntryOf(req),
                                   out |-> r.state.outputs[<<0, 0>>],
                                   count |-> get_rate(r.state, kind.counter_name,
                                                      EntryOf(req)),
                                   at |-> fastly.now,
                                   changed |-> \/ r.state.rate_counters # rate_counters
                                               \/ r.state.penalty_boxes # penalty_boxes])
    /\ xbefore' = ExecStateOf
    /\ UNCHANGED <<xresults, xchanged>>

InitPenalty == GraphInit /\ ExecIdle /\ EngineInit /\ PlatformInit /\ HostIdle

NextPenalty ==
    \/ /\ \E kind \in PenaltyKinds : \E req \in CounterRequests : ExecuteNodeAt(kind, req)
       /\ UNCHANGED <<graphVars, engineVars, fastly, hostVars>>
    \/ /\ Tick
       /\ UNCHANGED <<graphVars, execVars, hostVars>>

SpecPenalty == InitPenalty /\ [][NextPenalty]_vars

(***************************************************************************)
(* One ExecutionState shared by executions of different graphs: between two *)
(* execute calls the caller may hand over another graph                     *)
(***************************************************************************)
SharedKinds == {KRequest, KNot, KAction(BlockAction)}

SharedGraphs ==
    UNION {{Graph(ns, es, Len(ns)) : es \in ExecEdgeSeqs(ns)} :
              ns \in NodeSeqsOf(SharedKinds, MaxExecNodes)}

SharedInit ==
    /\ xgraph \in SharedGraphs
    /\ xreq = OrderRequest
    /\ outputs = EmptyMap
    /\ rate_counters = EmptyMap
    /\ penalty_boxes = EmptyMap
    /\ xresults = <<>>
    /\ xchanged = <<>>
    /\ lastRate = NoRate
    /\ xbefore = NewExecutionState
    /\ xlog = <<>>

\* the next execute call is given the graph G
LoadGraph(G) ==
    /\ G # xgraph
    /\ xgraph' = G
    /\ lastRate' = [op |-> "load_graph", counter_name |-> "", entry |-> "", count |-> 0]
    /\ UNCHANGED <<xreq, outputs, rate_counters, penalty_boxes, xresults, xchanged, xbefore,
                   xlog>>

InitShared == GraphInit /\ SharedInit /\ EngineInit /\ PlatformInit /\ HostIdle

NextShared ==
    /\ \/ Execute
       \/ \E G \in SharedGraphs : LoadGraph(G)
    /\ UNCHANGED <<graphVars, engineVars, fastly, hostVars>>

SpecShared == InitShared /\ [][NextShared]_vars

InitCounters == GraphInit /\ ExecIdle /\ EngineInit /\ PlatformInit /\ HostIdle

NextCounters ==
    /\ \/ \E c \in CounterNames : \E e \in CounterEntries : IncrementRate(c, e)
       \/ \E c \in CounterNames : \E e \in CounterEntries : GetRate(c, e)
       \/ \E c \in CounterNames : \E e \in CounterEntries : AddToPenaltyBox(c, e)
       \/ \E kind \in CounterKinds : \E req \in CounterRequests : ExecuteRateNode(kind, req)
    /\ UNCHANGED <<graphVars, engineVars, fastly, hostVars>>

SpecCounters == InitCounters /\ [][NextCounters]_vars

InitEngine == GraphInit /\ ExecIdle /\ EngineInit /\ PlatformInit /\ HostIdle

NextEngine ==
    /\ \/ \E name \in RuleNames : \E rule_str \in EngineRuleStrs : AddRule(name, rule_str)
       \/ \E req \in EngineRequests : Evaluate(req, "none")
    /\ UNCHANGED <<graphVars, execVars, hostVars>>

SpecEngine == InitEngine /\ [][NextEngine]_vars

NextRate ==
    /\ \/ \E name \in RuleNames : \E rule_str \in RateRuleStrs : AddRule(name, rule_str)
       \/ \E req \in RateRequests : \E fault \in Faults : Evaluate(req, fault)
       \/ Tick
    /\ UNCHANGED <<graphVars, execVars, hostVars>>

SpecRate == InitEngine /\ [][NextRate]_vars

NextTree ==
    /\ \/ \E rule_str \in TreeRuleStrs : AddRule("r1", rule_str)
       \/ \E req \in EngineRequests : \E fault \in Faults : Evaluate(req, fault)
       \/ Tick
    /\ UNCHANGED <<graphVars, execVars, hostVars>>

SpecTree == InitEngine /\ [][NextTree]_vars

(***************************************************************************)
(* Two rules, enabled or not, whose leaf lists hold one shared rate-limit  *)
(* leaf beside a leaf that reads the path                                  *)
(***************************************************************************)
SharedLeaf == RateLimitLeaf("1s", 1, 2, None_, None_)

LeafLists ==
    {<<SharedLeaf>>, <<PathLeaf("StartsWith", PathA), SharedLeaf>>}

LeafRuleStrs ==
    {[parses |-> TRUE, rule |-> Rule(en, Condition(op, ls), Action("block", None_, None_))] :
        en \in BOOLEAN, op \in {"AND", "OR"}, ls \in LeafLists}

LeafFaults == {"none", "has", "increment"}

NextLeaves ==
    /\ \/ \E name \in RuleNames : \E rule_str \in LeafRuleStrs : AddRule(name, rule_str)
       \/ \E req \in EngineRequests : \E fault \in LeafFaults : Evaluate(req, fault)
       \/ Tick
    /\ UNCHANGED <<graphVars, execVars, hostVars>>

SpecLeaves == InitEngine /\ [][NextLeaves]_vars

InitHost == GraphInit /\ ExecIdle /\ EngineInit /\ PlatformInit /\ HostInit

NextHost ==
    /\ \E req \in HostRequests : \E secret1, secret2 \in Secrets : \E send_ok \in BOOLEAN :
          \E order \in OrdersOf(security_rules) :
             HandleRequest(req, [secret1 |-> secret1, secret2 |-> secret2, order |-> order,
                                 fault |-> "none", send_ok |-> send_ok])
    /\ UNCHANGED <<graphVars, execVars, engineVars>>

SpecHost == InitHost /\ [][NextHost]_vars

(***************************************************************************)
(* Claims                                                                  *)
(***************************************************************************)
Min(S) == CHOOSE x \in S : \A y \in S : x <= y

\* the insertion indices of the enabled rules whose condition tree matches req
MatchingIndices(req) ==
    {i \in 1..Len(inserted) :
        /\ engine.rules[inserted[i]].enabled
        /\ evaluate_condition_with_details(engine, engine.rules[inserted[i]].conditions,
                                           req, "none", fastly).result}

\* C1: first match wins. Every evaluate call returns the name and action of the
\* enabled, matching rule of least insertion index, and None exactly when no enabled
\* rule matches the request.
C1_FirstMatchWins ==
    lastEval.called =>
        LET M == MatchingIndices(lastEval.req)
        IN  IF M = {} THEN lastEval.result = None_
            ELSE lastEval.result = Some([name |-> inserted[Min(M)],
                                         action |-> engine.rules[inserted[Min(M)]].action])


\* the leaf evaluations the last evaluate call made, in order, as <<rule index, leaf index>>
LeafEvals ==
    {p \in (1..Len(lastEval.evaluations)) \X (1..1) :
        /\ Len(lastEval.evaluations[p[1]].conditions) >= 1
        /\ lastEval.evaluations[p[1]].conditions[1].rule.type = "ratelimit"}

LeafOf(p) == lastEval.evaluations[p[1]].conditions[p[2]].rule
MatchedOf(p) == lastEval.evaluations[p[1]].conditions[p[2]].matched

\* the rate-limit leaves of the engine's rules
EngineRateLeaves ==
    {l \in UNION {{engine.rules[n].conditions.rules[j] :
                      j \in 1..Len(engine.rules[n].conditions.rules)} :
                  n \in DOMAIN engine.rules} : l.type = "ratelimit"}

\* the leaf has its counter cell and its penalty box to itself
OwnCells(l) ==
    \A l2 \in EngineRateLeaves :
        (CounterNameOf(l2) = CounterNameOf(l) \/ PenaltyboxNameOf(l2) = PenaltyboxNameOf(l))
            => l2 = l

\* C5: the flat RateLimit leaf over a request sequence. With no platform call failing
\* so far and the cells used by this leaf alone, the first leaf evaluation of a call
\* for client IP X returns false while it is at most the M-th inside the window
\* (M = max_requests), returns true as the (M+1)-th and puts X in the penalty box
\* until now + block_ttl, and returns true whenever X is in the penalty box.
C5_RateLimitLeafSequence ==
    (lastEval.called /\ lastEval.clean /\ lastEval.req.client_ip.some
     /\ <<1, 1>> \in LeafEvals /\ OwnCells(LeafOf(<<1, 1>>)))
    => LET l  == LeafOf(<<1, 1>>)
           x  == lastEval.req.client_ip.v
           b  == lastEval.before
           k  == CountInWindow(b, CounterNameOf(l), x, WindowSecs(l.window))
           boxed == PenaltyboxHas(b, PenaltyboxNameOf(l), x)
       IN  /\ (~boxed /\ k < l.max_requests) => ~MatchedOf(<<1, 1>>)
           /\ (~boxed /\ k = l.max_requests) =>
                 /\ MatchedOf(<<1, 1>>)
                 /\ <<PenaltyboxNameOf(l), x>> \in DOMAIN fastly.boxes
                 /\ fastly.boxes[<<PenaltyboxNameOf(l), x>>] = b.now + l.block_ttl
           /\ boxed => MatchedOf(<<1, 1>>)

\* C6 as stated: penalty-box absorbing. Every RateLimit leaf evaluated for an entry
\* that its penalty box holds (added earlier, TTL not yet elapsed) returns true.
C6_PenaltyBoxAbsorbing ==
    (lastEval.called /\ lastEval.req.client_ip.some)
    => \A p \in LeafEvals :
          PenaltyboxHas(lastEval.before, PenaltyboxNameOf(LeafOf(p)), lastEval.req.client_ip.v)
              => MatchedOf(p)

\* C6 amended: penalty-box absorbing when the membership test succeeds. Every
\* RateLimit leaf evaluated for an entry that its penalty box holds returns true,
\* whatever the counters hold, provided the call penalty_box.has did not fail.
C6_PenaltyBoxAbsorbingWhenHasSucceeds ==
    (lastEval.called /\ lastEval.req.client_ip.some /\ lastEval.fault # "has")
    => \A p \in LeafEvals :
          PenaltyboxHas(lastEval.before, PenaltyboxNameOf(LeafOf(p)), lastEval.req.client_ip.v)
              => MatchedOf(p)

\* a boxed entry whose counter window holds no hit any more is still matched
C6_Witness ==
    /\ lastEval.called /\ lastEval.req.client_ip.some /\ lastEval.fault # "has"
    /\ \E p \in LeafEvals :
          /\ PenaltyboxHas(lastEval.before, PenaltyboxNameOf(LeafOf(p)),
                           lastEval.req.client_ip.v)
          /\ CountInWindow(lastEval.before, CounterNameOf(LeafOf(p)),
                           lastEval.req.client_ip.v, WindowSecs(LeafOf(p).window)) = 0
          /\ MatchedOf(p)

\* C3: a rule-loading failure is never fatal to the request. When the store holds
\* neither packed nor legacy rules, or the packed blob fails to decode, the request
\* (its secret lookups and the backend send succeeding) is forwarded to the default
\* backend and the one log record carries rule_init_error and blocked = false.
C3_RuleLoadFailureNotFatal ==
    (/\ lastCall.called
     /\ lastCall.env.secret1.some /\ lastCall.env.secret2.some /\ lastCall.env.send_ok
     /\ ~load_rules_from_store(security_rules).ok)
    => /\ lastCall.outcome.response.ok
       /\ Len(lastCall.outcome.sends) = 1
       /\ lastCall.outcome.sends[1].backend = BACKEND_NAME
       /\ Len(lastCall.outcome.log) = 1
       /\ lastCall.outcome.log[1].final_action = "rule_init_error"
       /\ ~lastCall.outcome.log[1].blocked

\* C4: the handler never forwards un-signed. Every request sent to a backend carries
\* the Edge-Auth header computed under the shared secret; a run of main sends only
\* if both of its secret lookups succeeded, and a run whose first lookup finds the
\* secret missing returns an error.
C4_NeverForwardsUnsigned ==
    /\ \A i \in 1..Len(sent) :
          /\ "Edge-Auth" \in DOMAIN sent[i].req.headers
          /\ \E k \in Secrets : k.some /\ sent[i].req.headers["Edge-Auth"] = HMAC(k.v)
    /\ lastCall.called =>
          /\ (lastCall.outcome.sends # <<>>) =>
                (lastCall.env.secret1.some /\ lastCall.env.secret2.some)
          /\ ~lastCall.env.secret1.some => ~lastCall.outcome.response.ok

\* a request was forwarded, signed, and a later one failed on the missing secret
C4_Witness ==
    /\ Len(sent) >= 1
    /\ "Edge-Auth" \in DOMAIN sent[1].req.headers
    /\ lastCall.called
    /\ ~lastCall.env.secret1.some
    /\ ~lastCall.outcome.response.ok
    /\ lastCall.outcome.sends = <<>>

\* the rules the store yields that are disabled
DisabledRules(store) ==
    IF load_rules_from_store(store).ok
    THEN {n \in DOMAIN load_rules_from_store(store).v.rules :
             ~load_rules_from_store(store).v.rules[n].enabled}
    ELSE {}

Without(seq, name) == SelectSeq(seq, LAMBDA x : x # name)

\* the store with rule `name` removed from the rule set
RemoveRule(store, name) ==
    IF store.rules_packed.some
    THEN [store EXCEPT !.rules_packed.v.json.r = Without(@, name),
                       !.rules_packed.v.json.d = [n \in DOMAIN @ \ {name} |-> @[n]]]
    ELSE [store EXCEPT !.rule_list.v = Without(@, name),
                       !.keys = [n \in DOMAIN @ \ {name} |-> @[n]]]

\* what the client and the backends see of a run of main; an Err from main reaches
\* the client as the platform's 500 response
Verdict(o) ==
    [response |-> IF o.response.ok THEN o.response.v ELSE [status |-> 500, from |-> "edge"],
     backends |-> [i \in 1..Len(o.sends) |-> o.sends[i].backend],
     fastly |-> o.fastly]

\* C8: disabled-rule invisibility. For every disabled rule of the store, the verdict
\* of a run of main (response, backend sent to, rate-limit state) is one the same
\* request gets, under the same platform answers, from the store with that rule
\* removed.
C8_DisabledRuleInvisible ==
    lastCall.called =>
        \A name \in DisabledRules(security_rules) :
            Verdict(lastCall.outcome) \in
                {Verdict(main(lastCall.req, RemoveRule(security_rules, name),
                              [lastCall.env EXCEPT !.order = o], fastly)) :
                    o \in OrdersOf(RemoveRule(security_rules, name))}

\* C9: exactly one log record per request. After every run of main, on whatever
\* path it returned, the log sink holds one line per request handled.
C9_OneLogRecordPerRequest == Len(sink) = handled

\* the execute calls so far that left rate_counters and penalty_boxes unchanged
\* returned what the call before them returned
C7_SameResults(unchanged_only) ==
    \A i \in 1..(Len(xresults) - 1) :
        (unchanged_only => ~xchanged[i]) => xresults[i + 1] = xresults[i]

\* C7 as stated: graph determinism. On an acyclic graph and a fixed request, successive
\* executions sharing one ExecutionState return identical results.
C7_GraphDeterminism == ~HasCycle(xgraph) => C7_SameResults(FALSE)

\* C7 amended: graph determinism up to the rate state. On an acyclic graph and a
\* fixed request, an execution that follows one which left rate_counters and
\* penalty_boxes unchanged returns the result that one returned.
C7_GraphDeterminismUnchangedRateState == ~HasCycle(xgraph) => C7_SameResults(TRUE)

\* two executions of an acyclic graph with an edge, the first leaving the rate state
\* alone, both blocking
C7_Witness ==
    /\ ~HasCycle(xgraph)
    /\ Len(xgraph.edges) >= 1
    /\ Len(xresults) = 2
    /\ ~xchanged[1]
    /\ xresults[1] # Allow
    /\ xresults[2] = xresults[1]

\* C10: no client IP, no rate check. After executing a graph for a request without
\* client IP, no counter or penalty-box cell exists and every RateLimit node that
\* has an output has emitted false.
C10_NoClientIpNoEffect ==
    (~xreq.client_ip.some /\ Len(xresults) >= 1)
    => /\ rate_counters = EmptyMap
       /\ penalty_boxes = EmptyMap
       /\ \A i \in 1..Len(xgraph.nodes) :
             (/\ xgraph.nodes[i].kind.tag = "RateLimit"
              /\ <<xgraph.nodes[i].id, 0>> \in DOMAIN outputs)
             => outputs[<<xgraph.nodes[i].id, 0>>] = VBool(FALSE)

\* C2: cycle rejection. Every connect call between two existing nodes whose new
\* edge would close a directed cycle (a self-loop, or a path already leading from
\* to_node back to from_node) returns CycleDetected and leaves nodes, edges and
\* next_id as they were.
C2_CycleRejection ==
    [][(/\ lastOp'.op = "connect"
        /\ lastOp'.args[1] \in NodeIds(GraphOf)
        /\ lastOp'.args[3] \in NodeIds(GraphOf)
        /\ WouldCloseCycle(GraphOf, lastOp'.args[1], lastOp'.args[3]))
       => (/\ lastOp'.result = "CycleDetected"
           /\ nodes' = nodes
           /\ edges' = edges
           /\ next_id' = next_id)]_vars

\* the platform call named by the last call's fault was made while its first leaf was
\* evaluated: the membership test always is, the increment and the rate lookup unless
\* the test found the entry, the add when the rate after the increment is over the limit
FaultPerformed ==
    LET l == LeafOf(<<1, 1>>)
        x == lastEval.req.client_ip.v
        b == lastEval.before
        boxed == PenaltyboxHas(b, PenaltyboxNameOf(l), x)
        rate == RateCounterLookupRate(RateCounterIncrement(b, CounterNameOf(l), x),
                                      CounterNameOf(l), x, l.window)
    IN  CASE lastEval.fault = "none"        -> FALSE
          [] lastEval.fault = "has"         -> TRUE
          [] lastEval.fault = "increment"   -> ~boxed
          [] lastEval.fault = "lookup_rate" -> ~boxed
          [] lastEval.fault = "add"         -> ~boxed /\ rate > l.max_requests

\* C11: fail-open. When a counter or penalty-box call made while a flat RateLimit leaf
\* is evaluated fails (membership test, increment, rate lookup or add), the leaf
\* evaluates to false.
C11_FailOpen ==
    (lastEval.called /\ lastEval.req.client_ip.some /\ <<1, 1>> \in LeafEvals
     /\ FaultPerformed)
    => ~MatchedOf(<<1, 1>>)

\* C12: rate-limit monotonicity. Over any sequence of operations and executions on
\* one ExecutionState, the count of every counter cell never decreases, the count
\* returned by increment_rate or get_rate is the cell's count and at least the count
\* before, and a step leaves every cell other than the one it names unchanged.
C12_RateLimitMonotonic ==
    [][/\ \A c \in CounterNames, e \in CounterEntries :
             /\ get_rate(ExecStateOf', c, e) >= get_rate(ExecStateOf, c, e)
             /\ (<<c, e>> # <<lastRate'.counter_name, lastRate'.entry>>
                 \/ lastRate'.op \in {"get_rate", "add_to_penalty_box"})
                => get_rate(ExecStateOf', c, e) = get_rate(ExecStateOf, c, e)
       /\ lastRate'.op \in {"increment_rate", "get_rate"} =>
             /\ lastRate'.count >= get_rate(ExecStateOf, lastRate'.counter_name,
                                            lastRate'.entry)
             /\ lastRate'.count = get_rate(ExecStateOf', lastRate'.counter_name,
                                           lastRate'.entry)]_vars

\* a cell counted twice, then another counter incremented for the same entry, the
\* first cell keeping its count
C12_Witness ==
    /\ lastRate.op = "increment_rate"
    /\ lastRate.counter_name = "c2"
    /\ lastRate.entry = "10.0.0.1"
    /\ lastRate.count = 1
    /\ get_rate(ExecStateOf, "c1", "10.0.0.1") = 2
    /\ get_rate(ExecStateOf, "c1", "10.0.0.2") = 0

\* the result of the tree with operator `op` over the leaves of the rule the last
\* call evaluated first, on the request and the platform that call found
TreeResult(op) ==
    evaluate_condition_with_details(engine,
                                    Condition(op, lastEval.evaluations[1].rule.conditions.rules),
                                    lastEval.req, lastEval.fault, lastEval.before).result

\* C13: De Morgan on condition trees. For the leaf list C of an evaluated rule and its
\* request, NOT over C matches exactly when OR over C does not, the rule's own verdict
\* is the one its operator gives, and over an empty C NOT matches and OR does not.
C13_DeMorganOnTrees ==
    (lastEval.called /\ Len(lastEval.evaluations) >= 1)
    => /\ TreeResult("NOT") = ~TreeResult("OR")
       /\ lastEval.evaluations[1].matched
             = TreeResult(lastEval.evaluations[1].rule.conditions.operator)
       /\ lastEval.evaluations[1].rule.conditions.rules = <<>>
             => (TreeResult("NOT") /\ ~TreeResult("OR"))

\* a NOT rule over two leaves of which exactly one matched: the rule did not match
C13_Witness ==
    /\ lastEval.called
    /\ Len(lastEval.evaluations) >= 1
    /\ lastEval.evaluations[1].rule.conditions.operator = "NOT"
    /\ Len(lastEval.evaluations[1].conditions) = 2
    /\ lastEval.evaluations[1].conditions[1].matched
    /\ ~lastEval.evaluations[1].conditions[2].matched
    /\ ~lastEval.evaluations[1].matched

\* the kind tags of the nodes of the graph under edit that carry the id
KindTags(id) == {n.kind.tag : n \in get_node(GraphOf, id)}

\* C14: after any sequence of add_node, connect, disconnect and remove_node calls no
\* edge leaves an Action node and no edge enters a Request node.
C14_ActionNoOutRequestNoIn ==
    \A i \in 1..Len(edges) :
        /\ "Action" \notin KindTags(edges[i].from_node)
        /\ "Request" \notin KindTags(edges[i].to_node)

\* the edges of es that touch node id
Touching(es, id) == {i \in 1..Len(es) : es[i].from_node = id \/ es[i].to_node = id}

\* the edges of es into input port (to_node, to_port)
IntoPort(es, to_node, to_port) ==
    {i \in 1..Len(es) : es[i].to_node = to_node /\ es[i].to_port = to_port}

\* es without the edges whose index is in D, in order
RECURSIVE Dropping(_, _, _)
Dropping(es, D, i) ==
    IF i > Len(es) THEN <<>>
    ELSE IF i \in D THEN Dropping(es, D, i + 1)
    ELSE <<es[i]>> \o Dropping(es, D, i + 1)

\* C15: after any sequence of add_node, connect, disconnect and remove_node calls both
\* ends of every edge are ids of nodes in the graph; a connect naming a missing node
\* returns NodeNotFound and leaves the graph as it was; remove_node deletes exactly
\* the edges that touch the removed node.
C15_NoDanglingEdges ==
    /\ \A i \in 1..Len(edges) :
          edges[i].from_node \in NodeIds(GraphOf) /\ edges[i].to_node \in NodeIds(GraphOf)
    /\ (/\ lastOp.op = "connect"
        /\ (\/ lastOp.args[1] \notin NodeIds(lastOp.before)
            \/ lastOp.args[3] \notin NodeIds(lastOp.before)))
       => (lastOp.result = "NodeNotFound" /\ GraphOf = lastOp.before)
    /\ lastOp.op = "remove_node"
       => edges = Dropping(lastOp.before.edges,
                           Touching(lastOp.before.edges, lastOp.args[1]), 1)

\* remove_node took a node out of a graph of three nodes and two edges: the edge
\* that touched it is gone, the other one is still there
C15_Witness ==
    /\ lastOp.op = "remove_node"
    /\ lastOp.args[1] \in NodeIds(lastOp.before)
    /\ Len(lastOp.before.edges) = 2
    /\ Len(edges) = 1
    /\ edges[1].from_node \in NodeIds(GraphOf)
    /\ edges[1].to_node \in NodeIds(GraphOf)

\* C16: after any sequence of add_node, remove_node, connect and disconnect calls the
\* node ids are pairwise distinct, next_id has not decreased and is greater than every
\* id in the graph, and add_node hands out the old next_id: an id freed by remove_node
\* is not assigned again.
C16_UniqueIdsMonotonicNextId ==
    /\ \A i, j \in 1..Len(nodes) : i # j => nodes[i].id # nodes[j].id
    /\ \A i \in 1..Len(nodes) : nodes[i].id < next_id
    /\ next_id >= lastOp.before.next_id
    /\ lastOp.op = "add_node"
       => /\ nodes[Len(nodes)].id = lastOp.before.next_id
          /\ next_id = lastOp.before.next_id + 1
          /\ \A n \in NodeIds(lastOp.before) : n < nodes[Len(nodes)].id
    /\ lastOp.op # "add_node" => next_id = lastOp.before.next_id

\* add_node after node 0 was removed: the new node got a fresh id, 0 stays free
C16_Witness ==
    /\ lastOp.op = "add_node"
    /\ 0 \notin NodeIds(GraphOf)
    /\ Len(nodes) = 2
    /\ nodes[Len(nodes)].id = 2
    /\ next_id = 3

\* C17: after any sequence of graph operations every input port has at most one
\* incoming edge; a successful connect drops the edge that was in its input port, if
\* any, appends the new edge, and leaves the edges into other ports as they were.
C17_OneEdgePerInputPort ==
    /\ \A i, j \in 1..Len(edges) :
          (edges[i].to_node = edges[j].to_node /\ edges[i].to_port = edges[j].to_port)
             => i = j
    /\ (lastOp.op = "connect" /\ lastOp.result = "Ok")
       => edges = Append(Dropping(lastOp.before.edges,
                                  IntoPort(lastOp.before.edges, lastOp.args[3],
                                           lastOp.args[4]), 1),
                         Edge(lastOp.args[1], lastOp.args[2], lastOp.args[3],
                              lastOp.args[4]))
    /\ lastOp.op = "disconnect"
       => edges = Dropping(lastOp.before.edges,
                           IntoPort(lastOp.before.edges, lastOp.args[1], lastOp.args[2]), 1)

\* a connect into an input port that held an edge from another node, in a graph with
\* an edge into another port: the old edge is replaced, the other edge is kept
C17_Witness ==
    /\ lastOp.op = "connect"
    /\ lastOp.result = "Ok"
    /\ Len(lastOp.before.edges) = 2
    /\ \E i \in IntoPort(lastOp.before.edges, lastOp.args[3], lastOp.args[4]) :
          lastOp.before.edges[i].from_node # lastOp.args[1]
    /\ Len(edges) = 2
    /\ edges[2].from_node = lastOp.args[1]

\* the order execute walks the graph in
XOrder == topological_sort(xgraph).order

XNode(i) == CHOOSE n \in get_node(xgraph, XOrder[i]) : TRUE

\* the ExecutionState after the first k nodes of the order ran from state S
RECURSIVE AfterNodes(_, _)
AfterNodes(k, S) ==
    IF k = 0 THEN S ELSE execute_node(xgraph, XNode(k), xreq, AfterNodes(k - 1, S))

\* the positions of the terminals whose trigger input is truthy once they have run
Firing ==
    {i \in 1..Len(XOrder) :
        /\ XNode(i).kind.tag \in {"Action", "Forward"}
        /\ InputTruthy(gather_inputs(xgraph, XOrder[i], AfterNodes(i, xbefore)), 0)}

\* what a terminal node returns when it fires
TerminalResult(node) ==
    IF node.kind.tag = "Action" THEN ActionResult(node.kind.action)
    ELSE [tag |-> "Forward", backend |-> node.kind.backend]

\* C18: on an acyclic graph execute walks the nodes in an order that puts the source
\* of every edge before its target, returns the result of the first Action or Forward
\* node in that order whose trigger is truthy and leaves the state as it was when
\* that node had run (no later node is executed); when no terminal fires it runs
\* every node and returns Allow.
C18_FirstTerminalWins ==
    (~HasCycle(xgraph) /\ lastRate.op = "execute")
    => /\ {XOrder[i] : i \in 1..Len(XOrder)} = NodeIds(xgraph)
       /\ Len(XOrder) = Len(xgraph.nodes)
       /\ \A e \in 1..Len(xgraph.edges) :
             \E i, j \in 1..Len(XOrder) :
                /\ i < j
                /\ XOrder[i] = xgraph.edges[e].from_node
                /\ XOrder[j] = xgraph.edges[e].to_node
       /\ IF Firing = {}
          THEN /\ xresults[Len(xresults)] = Allow
               /\ ExecStateOf = AfterNodes(Len(XOrder), xbefore)
          ELSE /\ xresults[Len(xresults)] = TerminalResult(XNode(Min(Firing)))
               /\ ExecStateOf = AfterNodes(Min(Firing), xbefore)

\* a terminal fired while a RateLimit node stood later in the order: the counters,
\* filled by earlier calls, are as the call found them
C18_Witness ==
    /\ ~HasCycle(xgraph)
    /\ lastRate.op = "execute"
    /\ Firing # {}
    /\ xresults[Len(xresults)].tag \in {"Block", "Forward"}
    /\ \E j \in 1..Len(XOrder) : j > Min(Firing) /\ XNode(j).kind.tag = "RateLimit"
    /\ xbefore.rate_counters # EmptyMap
    /\ rate_counters = xbefore.rate_counters

\* C19: on a graph that contains a cycle execute returns Allow and executes no node:
\* outputs, rate_counters and penalty_boxes are as the call found them.
C19_CycleAllows ==
    (HasCycle(xgraph) /\ lastRate.op = "execute")
    => /\ ~topological_sort(xgraph).ok
       /\ xresults[Len(xresults)] = Allow
       /\ ExecStateOf = xbefore

\* a graph with a cycle and a RateLimit node outside it was executed on a state
\* that held a count: the result is Allow, the node left no output
C19_Witness ==
    /\ HasCycle(xgraph)
    /\ lastRate.op = "execute"
    /\ \E i \in 1..Len(xgraph.nodes) :
          /\ xgraph.nodes[i].kind.tag = "RateLimit"
          /\ \A e \in 1..Len(xgraph.edges) :
                xgraph.edges[e].from_node # xgraph.nodes[i].id
                /\ xgraph.edges[e].to_node # xgraph.nodes[i].id
    /\ xbefore.rate_counters # EmptyMap
    /\ outputs = EmptyMap
    /\ xresults[Len(xresults)] = Allow

\* the requests in flight on the same counter cell and entry as request p
SameCell(p) ==
    {q \in Procs : /\ CounterNameOf(conc[q].leaf) = CounterNameOf(conc[p].leaf)
                   /\ conc[q].ip = conc[p].ip}

\* request p has made its rate lookup
Looked(p) == conc[p].pc \in {"add", "done"} /\ conc[p].own > 0

\* C20: requests evaluating a RateLimit leaf at the same time on one counter cell and
\* entry see a total order of increments: the rate each request looks up is the count
\* its own increment produced, no two of them look up the same count, the cell holds
\* one hit per increment made, and requests on other cells do not count.
C20_TotalOrderOfIncrements ==
    \A p \in Procs :
        /\ Looked(p) => conc[p].observed = conc[p].own
        /\ \A q \in SameCell(p) : (Looked(p) /\ Looked(q) /\ p # q)
                                     => conc[p].observed # conc[q].observed
        /\ CountInWindow(fastly, CounterNameOf(conc[p].leaf), conc[p].ip,
                         WindowSecs(conc[p].leaf.window))
              = Cardinality({q \in SameCell(p) : conc[q].own > 0})

\* the rule definitions of the payload the store holds, by rule id
PayloadDefs(store) ==
    IF store.rules_packed.some
    THEN IF store.rules_packed.v.json_ok THEN store.rules_packed.v.json.d ELSE EmptyMap
    ELSE IF store.rule_list.some
    THEN [id \in {store.rule_list.v[i] : i \in 1..Len(store.rule_list.v)}
                    \cap DOMAIN store.keys |-> store.keys[id]]
    ELSE EmptyMap

\* C21: a rule whose definition fails to parse is skipped and the rest is loaded.
\* When the payload of the store, packed or legacy, holds a definition that does
\* not parse, the loader still succeeds with exactly the rules whose definitions
\* parse, the engine main builds holds each of them, and a run of main on it does
\* not end in rule_init_error while such a rule exists.
C21_ParseErrorSkipsOnlyThatRule ==
    (lastCall.called /\ lastCall.env.secret1.some
        /\ \E id \in DOMAIN PayloadDefs(security_rules) :
              ~PayloadDefs(security_rules)[id].parses) =>
        LET defs == PayloadDefs(security_rules)
            good == {id \in DOMAIN defs : defs[id].parses}
        IN  /\ load_rules_from_store(security_rules).ok
            /\ DOMAIN load_rules_from_store(security_rules).v.rules = good
            /\ good # {} =>
                  /\ load_rules(security_rules).ok
                  /\ good \subseteq DOMAIN load_rules(security_rules).v.engine.rules
                  /\ lastCall.outcome.response.ok \/ lastCall.outcome.sends # <<>>
                        \/ ~lastCall.env.secret2.some

\* the action types the rule format recognizes
RecognizedTypes == {"block", "challenge", "route", "allow", "log"}

\* the actions of the rules a log record reports as matched
MatchedActions(entry) ==
    {load_rules(security_rules).v.engine.rules[entry.rules_evaluated[j].name].action :
        j \in {k \in 1..Len(entry.rules_evaluated) : entry.rules_evaluated[k].matched}}

\* C22: unknown action types. In the log record of a run of main in which a rule
\* matched: if the rule's action type is none of block, challenge, route, allow,
\* log, the request went to the default backend and final_action is unknown_action;
\* if it is one of them, final_action is not unknown_action.
C22_UnknownActionOnlyForUnknownTypes ==
    lastCall.called =>
        \A i \in 1..Len(lastCall.outcome.log) :
            \A a \in MatchedActions(lastCall.outcome.log[i]) :
                /\ a.type_ \notin RecognizedTypes =>
                      /\ lastCall.outcome.log[i].final_action = "unknown_action"
                      /\ Len(lastCall.outcome.sends) = 1
                      /\ lastCall.outcome.sends[1].backend = BACKEND_NAME
                /\ a.type_ \in RecognizedTypes =>
                      lastCall.outcome.log[i].final_action # "unknown_action"

\* the Condition nodes of the executed graph whose operator is one of `ops` and whose
\* field value, for the request, has another type than the condition value
Mismatched(ops) ==
    {i \in 1..Len(xgraph.nodes) :
        /\ xgraph.nodes[i].kind.tag = "Condition"
        /\ xgraph.nodes[i].kind.operator \in ops
        /\ get_field(xreq, xgraph.nodes[i].kind.field).t # xgraph.nodes[i].kind.value.t}

\* C23: equals and not_equals on mismatched types. After an execution, every
\* Condition node with operator Equals or NotEquals whose field value (an absent
\* field is None) has another type than its condition value has emitted false.
C23_MismatchedTypesFalse ==
    lastRate.op = "execute" =>
        \A i \in Mismatched({"Equals", "NotEquals"}) :
            outputs[<<xgraph.nodes[i].id, 0>>] = VBool(FALSE)

\* the leaf evaluations of the last call on rate-limit leaves of counter `cn`
RateLeafEvals(cn) ==
    {p \in (1..Len(lastEval.evaluations)) \X (1..2) :
        /\ p[2] <= Len(lastEval.evaluations[p[1]].conditions)
        /\ lastEval.evaluations[p[1]].conditions[p[2]].rule.type = "ratelimit"
        /\ CounterNameOf(lastEval.evaluations[p[1]].conditions[p[2]].rule) = cn}

\* the increments the platform holds under counter `cn`, over all entries
NameHits(F, cn) == SumLen(F.hits, {k \in DOMAIN F.hits : k[1] = cn})

\* the counter names and penalty-box names of the engine's rate-limit leaves
EngineCounterNames == {CounterNameOf(l) : l \in EngineRateLeaves}

\* every evaluated rule's trace lists each of its leaves once, in order
EveryLeafOnce ==
    \A i \in 1..Len(lastEval.evaluations) :
        LET leaves == engine.rules[lastEval.evaluations[i].name].conditions.rules
            conds  == lastEval.evaluations[i].conditions
        IN  /\ Len(conds) = Len(leaves)
            /\ \A j \in 1..Len(leaves) : conds[j].rule = leaves[j]

\* the trace holds enabled rules only, each at most once, and ends at the first match
OnlyUpToFirstMatch ==
    /\ \A i \in 1..Len(lastEval.evaluations) :
          /\ engine.rules[lastEval.evaluations[i].name].enabled
          /\ lastEval.evaluations[i].matched => i = Len(lastEval.evaluations)
    /\ \A i, j \in 1..Len(lastEval.evaluations) :
          i # j => lastEval.evaluations[i].name # lastEval.evaluations[j].name

\* counters and penalty boxes change only for the client IP of the request and only
\* in cells of leaves that were evaluated
OnlyEvaluatedCells ==
    /\ \A k \in DOMAIN fastly.hits :
          (k \notin DOMAIN lastEval.before.hits \/ fastly.hits[k] # lastEval.before.hits[k])
              => /\ RateLeafEvals(k[1]) # {}
                 /\ lastEval.req.client_ip = Some(k[2])
    /\ \A k \in DOMAIN fastly.boxes :
          (k \notin DOMAIN lastEval.before.boxes \/ fastly.boxes[k] # lastEval.before.boxes[k])
              => /\ \E cn \in EngineCounterNames : \E p \in RateLeafEvals(cn) :
                       PenaltyboxNameOf(lastEval.evaluations[p[1]].conditions[p[2]].rule) = k[1]
                 /\ lastEval.req.client_ip = Some(k[2])

UnmatchedRateLeafEvals(cn) ==
    {p \in RateLeafEvals(cn) : ~lastEval.evaluations[p[1]].conditions[p[2]].matched}

\* the client IP is in none of the penalty boxes of the evaluated leaves of counter
\* `cn` when the call starts, and the call adds it to none of them
NeverBoxed(cn) ==
    \A p \in RateLeafEvals(cn) :
        LET b == PenaltyboxNameOf(lastEval.evaluations[p[1]].conditions[p[2]].rule)
            x == lastEval.req.client_ip.v
        IN  /\ ~PenaltyboxHas(lastEval.before, b, x)
            /\ <<b, x>> \in DOMAIN fastly.boxes =>
                  /\ <<b, x>> \in DOMAIN lastEval.before.boxes
                  /\ fastly.boxes[<<b, x>>] = lastEval.before.boxes[<<b, x>>]

TraceNames == [i \in 1..Len(lastEval.evaluations) |-> lastEval.evaluations[i].name]

\* C25: the trace of evaluate_with_details. The trace holds one entry per rule
\* evaluated, in an order the iteration over the enabled rules can take, each entry
\* carrying its rule and no rule twice. When a rule matches, it is the last entry,
\* the only one with matched = true, and the call returns its name and action; when
\* no rule matches, the trace holds every enabled rule exactly once, no disabled
\* rule, and no entry with matched = true.
C25_TraceOfEvaluatedRules ==
    lastEval.called =>
        LET ev == lastEval.evaluations
            enabled == {n \in DOMAIN engine.rules : engine.rules[n].enabled}
        IN  /\ \E o \in IterationOrders(engine) :
                  /\ Len(ev) <= Len(o)
                  /\ \A i \in 1..Len(ev) : TraceNames[i] = o[i]
            /\ \A i \in 1..Len(ev) : ev[i].rule = engine.rules[ev[i].name]
            /\ \A i, j \in 1..Len(ev) : i # j => ev[i].name # ev[j].name
            /\ lastEval.result.some =>
                  /\ Len(ev) >= 1
                  /\ ev[Len(ev)].matched
                  /\ \A i \in 1..(Len(ev) - 1) : ~ev[i].matched
                  /\ lastEval.result.v.name = ev[Len(ev)].name
                  /\ lastEval.result.v.action = engine.rules[ev[Len(ev)].name].action
            /\ ~lastEval.result.some =>
                  /\ {TraceNames[i] : i \in 1..Len(ev)} = enabled
                  /\ Len(ev) = Cardinality(enabled)
                  /\ \A i \in 1..Len(ev) : ~ev[i].matched

\* two enabled rules were evaluated: the first did not match, the second did
C25_Witness ==
    /\ lastEval.called
    /\ lastEval.result.some
    /\ Len(lastEval.evaluations) = 2
    /\ ~lastEval.evaluations[1].matched
    /\ lastEval.evaluations[2].matched
    /\ lastEval.result.v.name = lastEval.evaluations[2].name

\* the blob passes every decoding stage
Decodes(blob) ==
    /\ blob.base64_ok
    /\ blob.inflate_ok
    /\ blob.json_ok
    /\ \A id \in DOMAIN blob.json.d : blob.json.d[id].parses

\* the LoadError of the first stage the blob fails at
FaultingStage(blob) ==
    IF ~blob.base64_ok THEN "Base64Error"
    ELSE IF ~blob.inflate_ok THEN "DecompressError"
    ELSE "JsonError"

\* the store without its legacy keys
WithoutLegacy(store) == [store EXCEPT !.rule_list = None_, !.keys = EmptyMap]

\* C26: the legacy format is a fallback for an absent packed key only. On the store
\* a run of main loaded from: when rules_packed is present, what the loader returns
\* does not depend on rule_list or the per-rule keys; when it is present and does not
\* decode, the loader returns the LoadError of the faulting stage, the engine is not
\* built and no rule of the legacy keys is evaluated; when it is absent, the loader
\* returns what the legacy keys give.
C26_LegacyOnlyWhenPackedAbsent ==
    (lastCall.called /\ lastCall.env.secret1.some) =>
        LET store == security_rules
            r == load_rules_from_store(store)
        IN  /\ store.rules_packed.some => r = load_rules_from_store(WithoutLegacy(store))
            /\ (store.rules_packed.some /\ ~Decodes(store.rules_packed.v)) =>
                  /\ ~r.ok
                  /\ r.err = FaultingStage(store.rules_packed.v)
                  /\ ~load_rules(store).ok
                  /\ \A i \in 1..Len(lastCall.outcome.log) :
                        lastCall.outcome.log[i].rules_evaluated = <<>>
            /\ ~store.rules_packed.some => r = load_legacy_rules(store)

\* main ran on a store whose packed blob fails at the gzip stage while its legacy
\* keys hold a rule that parses: the run logged the failed load
C26_Witness ==
    /\ lastCall.called
    /\ lastCall.env.secret1.some
    /\ security_rules.rules_packed.some
    /\ security_rules.rules_packed.v.base64_ok
    /\ ~security_rules.rules_packed.v.inflate_ok
    /\ security_rules.rule_list.some
    /\ "r1" \in DOMAIN security_rules.keys
    /\ security_rules.keys["r1"].parses
    /\ Len(lastCall.outcome.log) = 1
    /\ lastCall.outcome.log[1].final_action = "rule_init_error"

\* the position of node id in the order
PositionIn(order, id) == CHOOSE i \in 1..Len(order) : order[i] = id

\* the order lists every node id of G exactly once, and every edge's source before
\* its target
IsTopologicalOrder(G, order) ==
    /\ Len(order) = Cardinality(NodeIds(G))
    /\ {order[i] : i \in 1..Len(order)} = NodeIds(G)
    /\ \A i \in 1..Len(G.edges) :
          PositionIn(order, G.edges[i].from_node) < PositionIn(order, G.edges[i].to_node)

\* C27: topological_sort. On the graph execute was called on: without a directed
\* cycle the sort returns Ok with every node id exactly once and, for every edge,
\* from_node before to_node; with a directed cycle it returns CycleDetected.
C27_TopologicalSort ==
    Len(xresults) >= 1 =>
        /\ ~HasCycle(xgraph) =>
              /\ topological_sort(xgraph).ok
              /\ IsTopologicalOrder(xgraph, topological_sort(xgraph).order)
        /\ HasCycle(xgraph) => ~topological_sort(xgraph).ok

\* an executed graph of three nodes without a cycle whose two edges run against the
\* order the nodes were added in: the sort lists the last node first
C27_Witness ==
    /\ Len(xresults) >= 1
    /\ Len(xgraph.nodes) = 3
    /\ Len(xgraph.edges) = 2
    /\ ~HasCycle(xgraph)
    /\ \A i \in 1..2 : xgraph.edges[i].from_node > xgraph.edges[i].to_node
    /\ topological_sort(xgraph).ok
    /\ topological_sort(xgraph).order = <<2, 1, 0>>

\* the executions before the i-th that penalised the entry the i-th asks about
PenalizedBefore(i) ==
    {j \in 1..(i - 1) :
        /\ xlog[j].mode = "CheckRateAndPenalize"
        /\ xlog[j].counter_name = xlog[i].counter_name
        /\ xlog[j].entry = xlog[i].entry
        /\ xlog[j].out = VBool(TRUE)}

\* C28: CheckRateAndPenalize and InPenaltyBox. Of the RateLimit nodes executed so
\* far: a CheckRateAndPenalize node emitted true exactly when the count its increment
\* produced exceeded the threshold; an InPenaltyBox node emitted true exactly when a
\* CheckRateAndPenalize node of the same name had penalised the entry less than
\* penalty_ttl_seconds before, and changed no counter and no penalty box.
C28_PenalizeThenInBoxUntilTtl ==
    \A i \in 1..Len(xlog) :
        /\ xlog[i].mode = "CheckRateAndPenalize" =>
              xlog[i].out = VBool(xlog[i].count > xlog[i].threshold)
        /\ xlog[i].mode = "InPenaltyBox" =>
              /\ ~xlog[i].changed
              /\ xlog[i].out = VBool(\E j \in PenalizedBefore(i) :
                                        xlog[i].at < xlog[j].at + PenaltyTtl)

\* the ExecutionState with no outputs left from earlier calls
Cleared(S) == [S EXCEPT !.outputs = EmptyMap]

\* the positions of the order whose nodes the last execute call ran
Ran == 1..(IF Firing = {} THEN Len(XOrder) ELSE Min(Firing))

\* C29: no stale inputs. In the last execute call on an acyclic graph, the inputs
\* every node that ran received, when it was executed and when its trigger was
\* checked, are those it receives when the call starts from the same state with
\* outputs empty: each is a value produced earlier in the same call or None, never
\* a value an earlier call left in outputs.
C29_NoStaleInputs ==
    (lastRate.op = "execute" /\ ~HasCycle(xgraph)) =>
        \A i \in Ran :
            /\ gather_inputs(xgraph, XOrder[i], AfterNodes(i - 1, xbefore))
                  = gather_inputs(xgraph, XOrder[i], AfterNodes(i - 1, Cleared(xbefore)))
            /\ gather_inputs(xgraph, XOrder[i], AfterNodes(i, xbefore))
                  = gather_inputs(xgraph, XOrder[i], AfterNodes(i, Cleared(xbefore)))

\* the final actions of requests that were forwarded to a backend
ForwardedActions ==
    {"forwarded", "route_backend_missing", "route_no_backend", "unknown_action"}
        \cup {"routed:" \o b : b \in UNION {DOMAIN bs : bs \in HostBackends}}

\* C30: the blocked flag agrees with the outcome. In the log record of a run of main,
\* blocked is true exactly when the request was answered at the edge with the block
\* or challenge response, and false whenever the request was forwarded to a backend.
C30_BlockedFlagAgreesWithOutcome ==
    lastCall.called =>
        \A i \in 1..Len(lastCall.outcome.log) :
            /\ lastCall.outcome.log[i].blocked
                  <=> /\ lastCall.outcome.response.ok
                      /\ lastCall.outcome.response.v.from = "edge"
                      /\ lastCall.outcome.log[i].final_action \in {"blocked", "challenged"}
            /\ lastCall.outcome.log[i].final_action \in ForwardedActions =>
                  ~lastCall.outcome.log[i].blocked

====
